---- MODULE Spec2Model ----
(***************************************************************************)
(* Model of vacansee's schedule generator, scripts/generate_schedule.py:   *)
(* the overlap test is_slot_available, the room-set expansion              *)
(* expand_rooms_set, the combined-room propagation and the schedule        *)
(* builder of generate_schedule_data_from_csv, and the main block that     *)
(* saves the result with save_schedule_to_json.                            *)
(*                                                                         *)
(* Python strings are sequences of one-character strings; they are ordered *)
(* as Python orders str values, by code point, a proper prefix first.      *)
(***************************************************************************)
EXTENDS Integers, Sequences, FiniteSets, TLC

\* ------------------------------------------------------------ bounds

\* Longest busy list handed to is_slot_available in SpecOverlap.
MaxBusy == 2

\* Most booking records in the source a run reads.
MaxRows == 3

\* ------------------------------------------------------------ strings

\* Code points of the characters that occur in the modelled strings.
Ord ==
    " " :> 32 @@ "-" :> 45 @@ "." :> 46 @@ "/" :> 47 @@
    "0" :> 48 @@ "1" :> 49 @@ "2" :> 50 @@ "3" :> 51 @@ "4" :> 52 @@
    "5" :> 53 @@ "6" :> 54 @@ "7" :> 55 @@ "8" :> 56 @@ "9" :> 57 @@
    ":" :> 58 @@ "A" :> 65 @@ "B" :> 66 @@ "O" :> 79 @@
    "e" :> 101 @@ "i" :> 105 @@ "l" :> 108 @@ "n" :> 110

\* Python's s < t on str: the first differing character decides, and a
\* proper prefix is smaller.
RECURSIVE StrLT(_, _)
StrLT(s, t) ==
    IF t = <<>> THEN FALSE
    ELSE IF s = <<>> THEN TRUE
    ELSE IF Head(s) = Head(t) THEN StrLT(Tail(s), Tail(t))
    ELSE Ord[Head(s)] < Ord[Head(t)]

\* Python's s > t on str.
StrGT(s, t) == StrLT(t, s)

\* ------------------------------------------------------------ constants

DAYS_OF_WEEK ==
    << "Monday", "Tuesday", "Wednesday", "Thursday", "Friday", "Saturday",
       "Sunday" >>

TIME_SLOTS ==
    << <<"0","8",":","3","0">>, <<"0","9",":","0","0">>, <<"0","9",":","3","0">>,
       <<"1","0",":","0","0">>, <<"1","0",":","3","0">>, <<"1","1",":","0","0">>,
       <<"1","1",":","3","0">>, <<"1","2",":","0","0">>, <<"1","2",":","3","0">>,
       <<"1","3",":","0","0">>, <<"1","3",":","3","0">>, <<"1","4",":","0","0">>,
       <<"1","4",":","3","0">>, <<"1","5",":","0","0">>, <<"1","5",":","3","0">>,
       <<"1","6",":","0","0">>, <<"1","6",":","3","0">>, <<"1","7",":","0","0">>,
       <<"1","7",":","3","0">>, <<"1","8",":","0","0">>, <<"1","8",":","3","0">>,
       <<"1","9",":","0","0">>, <<"1","9",":","3","0">>, <<"2","0",":","0","0">>,
       <<"2","0",":","3","0">>, <<"2","1",":","0","0">>, <<"2","1",":","3","0">>,
       <<"2","2",":","0","0">>, <<"2","2",":","3","0">> >>

\* A table in which 5.13 is a constituent of two rules and the combined code
\* 4.467 is a constituent of a third.
COMBINED_ROOM_MAP_shared ==
    << [combined |-> <<"4",".","4","6","7">>,
        ind_a |-> <<"4",".","4","6">>, ind_b |-> <<"5",".","1","3">>],
       [combined |-> <<"5",".","1","3","4">>,
        ind_a |-> <<"5",".","1","3">>, ind_b |-> <<"5",".","1","4">>],
       [combined |-> <<"6",".","3","4","5">>,
        ind_a |-> <<"6",".","3","4">>, ind_b |-> <<"4",".","4","6","7">>] >>

\* The rules in the dict's insertion order: combined code, then its two
\* individual codes.
COMBINED_ROOM_MAP ==
    << [combined |-> <<"2",".","6","2","/","6","3">>,
        ind_a |-> <<"2",".","6","2">>, ind_b |-> <<"2",".","6","3">>],
       [combined |-> <<"2",".","6","6","/","6","7">>,
        ind_a |-> <<"2",".","6","6">>, ind_b |-> <<"2",".","6","7">>],
       [combined |-> <<"4",".","4","6","7">>,
        ind_a |-> <<"4",".","4","6">>, ind_b |-> <<"4",".","4","7">>],
       [combined |-> <<"5",".","1","3","4">>,
        ind_a |-> <<"5",".","1","3">>, ind_b |-> <<"5",".","1","4">>],
       [combined |-> <<"6",".","3","4","5">>,
        ind_a |-> <<"6",".","3","4">>, ind_b |-> <<"6",".","3","5">>] >>

\* ------------------------------------------------------------ state

VARIABLES
    \* calls of is_slot_available: the arguments, the position, the result, and
    \* the busy list with one more interval and the result of the call on it
    slot_start, slot_end, room_timings, ov_pc, available,
    longer_timings, available_longer,
    \* the result of the legacy generator's check_room_availability for the
    \* slot that starts at slot_start, over the same bookings
    legacy_available,
    \* the short code of one room full name as the three scripts derive it:
    \* the name, the position, and the results of generate_schedule.py,
    \* update_rooms.py and scrape_timetable.py
    full_name, sc_pc, short_generate, short_update, short_scrape,
    \* calls of expand_rooms_set: the argument, the position, the results of
    \* the call and of a second call on the first result
    base_rooms, ex_pc, expanded, expanded_again,
    \* the environment of one run of the script: the booking records of the
    \* source that is read, whether classes.csv can be read, the iteration
    \* order of this process's sets, scheduleData.json as the run found it
    rows, csv_ok, hash_seed, previous_file,
    \* which TIME_SLOTS and COMBINED_ROOM_MAP the module defines (the name of
    \* a configuration), and the number of the run in a sequence of runs
    config, run_number,
    \* upload_timetable.py: the position; classes.csv (whether it is there
    \* with its header, and its rows); the locals of insert_timings_from_csv;
    \* the insert calls the Timings table received, in order, each with its
    \* rows and whether it succeeded; what delete_existing_timings and
    \* insert_timings_from_csv returned; the exit code
    up_pc, csv_file, csv_lines, row_index, rows_to_insert, total_rows_in_csv,
    inserted_count, skipped_count, insert_calls, delete_returned, insert_returned,
    up_exit_code,
    \* scrape_timetable.py: the position in scrape and fetch_page; the
    \* max_retries of fetch_page; which of the two fetch_page calls of scrape
    \* is running; the loop variable; every GET made, with its call, its
    \* attempt and whether it succeeded; the attempts after which the session
    \* was replaced; how the running call ended and, when it raised, the
    \* attempt whose exception it was; what scrape returned; the exit code
    fp_pc, max_retries, fp_call, attempt, get_log, replaced_after, fp_outcome,
    fp_exception, scrape_returned, fp_exit_code,
    \* update_rooms.py: the position; classes.csv (its condition and the Room
    \* values of its readable rows); the names fetch_existing_room_names
    \* returns; the exception find_new_rooms_from_csv caught; its result as
    \* the main block holds it; the insert calls the Rooms table received;
    \* the main block's flag and the exit code
    ur_pc, ur_csv, ur_csv_rooms, existing_names, csv_error, new_room_data,
    ur_insert_calls, ur_final_success, ur_exit_code,
    \* the run: its position, the locals of generate_schedule_data_from_csv
    \* (effective_timings as each turn of the day loop left it, by day), the
    \* number of days processed, scheduleData.json, how the file operations
    \* of the save went, the main block's flag and the exit code
    pc, rooms_info, timings_by_day_room, rooms_set, shortcode_to_rooms,
    day_index, effective_timings, schedule, output_file, save_io, final_success,
    exit_code

ovVars == << slot_start, slot_end, room_timings, ov_pc, available,
            longer_timings, available_longer, legacy_available >>

scVars == << full_name, sc_pc, short_generate, short_update, short_scrape >>

exVars == << base_rooms, ex_pc, expanded, expanded_again >>

envVars == << rows, csv_ok, hash_seed, previous_file,
             config, run_number >>

runVars == << pc, rooms_info, timings_by_day_room, rooms_set, shortcode_to_rooms,
              day_index, effective_timings, schedule, output_file, save_io,
              final_success, exit_code >>

upVars == << up_pc, csv_file, csv_lines, row_index, rows_to_insert, total_rows_in_csv,
            inserted_count, skipped_count, insert_calls, delete_returned,
            insert_returned, up_exit_code >>

\* The variables of the scripts other than generate_schedule.py.
fpVars == << fp_pc, max_retries, fp_call, attempt, get_log, replaced_after,
            fp_outcome, fp_exception, scrape_returned, fp_exit_code >>

urVars == << ur_pc, ur_csv, ur_csv_rooms, existing_names, csv_error, new_room_data,
            ur_insert_calls, ur_final_success, ur_exit_code >>

scriptVars == << upVars, fpVars, urVars >>

vars == << ovVars, scVars, exVars, envVars, runVars, scriptVars >>

\* ------------------------------------------------------------ is_slot_available

\* The loop of is_slot_available with <= where the code has <.
RECURSIVE is_slot_available_closed(_, _, _)
is_slot_available_closed(s_start, s_end, timings) ==
    IF timings = <<>> THEN TRUE
    ELSE IF ~StrGT(Head(timings)[1], s_end) /\ ~StrLT(Head(timings)[2], s_start)
         THEN FALSE
         ELSE is_slot_available_closed(s_start, s_end, Tail(timings))

\* The loop with a flag that every turn overwrites: the last timing of the
\* list decides.
is_slot_available_last(s_start, s_end, timings) ==
    IF timings = <<>> THEN TRUE
    ELSE ~(/\ StrLT(timings[Len(timings)][1], s_end)
           /\ StrGT(timings[Len(timings)][2], s_start))

\* The loop left after its first turn: only the first timing of the list is
\* tested.
is_slot_available_first(s_start, s_end, timings) ==
    IF timings = <<>> THEN TRUE
    ELSE ~(StrLT(Head(timings)[1], s_end) /\ StrGT(Head(timings)[2], s_start))

\* for timing_start, timing_end in room_timings: return False at the first
\* timing with timing_start < slot_end and timing_end > slot_start; True
\* when the list is exhausted.
RECURSIVE is_slot_available(_, _, _)
is_slot_available(s_start, s_end, timings) ==
    IF timings = <<>> THEN TRUE
    ELSE IF StrLT(Head(timings)[1], s_end) /\ StrGT(Head(timings)[2], s_start)
         THEN FALSE
         ELSE is_slot_available(s_start, s_end, Tail(timings))

\* ------------------------------------------------------------ times

\* The value of a decimal digit.
Digit == "0" :> 0 @@ "1" :> 1 @@ "2" :> 2 @@ "3" :> 3 @@ "4" :> 4 @@
         "5" :> 5 @@ "6" :> 6 @@ "7" :> 7 @@ "8" :> 8 @@ "9" :> 9

\* text.split() for a text of blanks and other characters: its words.
RECURSIVE SplitBlanks(_, _)
SplitBlanks(text, word) ==
    IF text = <<>> THEN (IF word = <<>> THEN <<>> ELSE << word >>)
    ELSE IF Head(text) = " "
         THEN (IF word = <<>> THEN <<>> ELSE << word >>) \o SplitBlanks(Tail(text), <<>>)
         ELSE SplitBlanks(Tail(text), Append(word, Head(text)))

\* " ".join(words)
RECURSIVE JoinBlank(_)
JoinBlank(words) ==
    IF words = <<>> THEN <<>>
    ELSE IF Len(words) = 1 THEN words[1]
    ELSE words[1] \o << " " >> \o JoinBlank(Tail(words))

\* scrape_timetable_auth.py, normalize_whitespace: " ".join(text.split())
normalize_whitespace(text) == JoinBlank(SplitBlanks(text, <<>>))

\* int() of one or two decimal digits.
DigitsValue(s) == IF Len(s) = 1 THEN Digit[s[1]] ELSE Digit[s[1]] * 10 + Digit[s[2]]

\* datetime.strptime(s, "%H:%M"): one or two digits of an hour up to 23, a
\* colon, one or two digits of a minute up to 59, and nothing else; anything
\* else raises ValueError (ok is FALSE).
strptime_HM(s) ==
    LET colons == { i \in 1..Len(s) : s[i] = ":" }
        c      == CHOOSE i \in colons : TRUE
        hh     == SubSeq(s, 1, c - 1)
        mm     == SubSeq(s, c + 1, Len(s))
        digits(x) == Len(x) \in { 1, 2 } /\ \A i \in 1..Len(x) : x[i] \in DOMAIN Digit
    IN  IF Cardinality(colons) = 1 /\ digits(hh) /\ digits(mm)
           /\ DigitsValue(hh) <= 23 /\ DigitsValue(mm) <= 59
        THEN [ok |-> TRUE, hour |-> DigitsValue(hh), minute |-> DigitsValue(mm)]
        ELSE [ok |-> FALSE, hour |-> 0, minute |-> 0]

\* strftime of a number with %H or %M: two digits.
TwoDigits(n) ==
    LET chars == << "0", "1", "2", "3", "4", "5", "6", "7", "8", "9" >>
    IN  << chars[(n \div 10) + 1], chars[(n % 10) + 1] >>

\* scrape_timetable_auth.py, format_time_to_hh_mm: the normalized text
\* reformatted as HH:MM when strptime reads it, and as it is when not.
format_time_to_hh_mm(time_str) ==
    LET normalized_time == normalize_whitespace(time_str)
        dt_obj == strptime_HM(normalized_time)
    IN  IF normalized_time = <<>> THEN <<>>
        ELSE IF dt_obj.ok
             THEN TwoDigits(dt_obj.hour) \o << ":" >> \o TwoDigits(dt_obj.minute)
             ELSE normalized_time

\* ------------------------------------------------------------ room names

\* "-" in room_name
HasDash(s) == \E i \in 1..Len(s) : s[i] = "-"

\* room_name.split("-")[0]: the text before the first "-", the whole string
\* when it has none.
RECURSIVE SplitDashFirst(_)
SplitDashFirst(s) ==
    IF s = <<>> \/ Head(s) = "-" THEN <<>>
    ELSE << Head(s) >> \o SplitDashFirst(Tail(s))

RECURSIVE LStrip(_)
LStrip(s) == IF s # <<>> /\ Head(s) = " " THEN LStrip(Tail(s)) ELSE s

RECURSIVE RStrip(_)
RStrip(s) ==
    IF s # <<>> /\ s[Len(s)] = " " THEN RStrip(SubSeq(s, 1, Len(s) - 1)) ELSE s

\* str.strip()
Strip(s) == RStrip(LStrip(s))

\* The short code with a name that has no "-" returned as it is.
get_room_short_code_nostrip(room_name) ==
    IF HasDash(room_name) THEN Strip(SplitDashFirst(room_name)) ELSE room_name

\* room_name.split("-")[0].strip() if "-" in room_name else room_name.strip()
get_room_short_code(room_name) ==
    IF HasDash(room_name) THEN Strip(SplitDashFirst(room_name)) ELSE Strip(room_name)

\* update_rooms.py, find_new_rooms_from_csv: the name is stored stripped
\* (unique_csv_rooms.add(room_name.strip())) and its ShortCode is
\* name.split("-")[0].strip().
update_rooms_ShortCode(room_name) == Strip(SplitDashFirst(Strip(room_name)))

\* scrape_timetable.py, process_data: room = room.strip();
\* room_code = room.split('-')[0].strip()
scrape_timetable_room_code(room) == Strip(SplitDashFirst(Strip(room)))

\* ------------------------------------------------------------ orders

\* Python's a < b on (start, end) tuples of str.
TupleLT(a, b) == StrLT(a[1], b[1]) \/ (a[1] = b[1] /\ StrLT(a[2], b[2]))

\* sorted(S) for a set of str.
RECURSIVE SortedStrs(_)
SortedStrs(S) ==
    IF S = {} THEN <<>>
    ELSE LET m == CHOOSE x \in S : \A y \in S \ {x} : StrLT(x, y)
         IN  << m >> \o SortedStrs(S \ {m})

\* sorted(S) for a set of (start, end) tuples.
RECURSIVE SortedTuples(_)
SortedTuples(S) ==
    IF S = {} THEN <<>>
    ELSE LET m == CHOOSE x \in S : \A y \in S \ {x} : TupleLT(x, y)
         IN  << m >> \o SortedTuples(S \ {m})

Reverse(q) == [i \in 1..Len(q) |-> q[Len(q) + 1 - i]]

\* The order in which a Python set of str is iterated. The language leaves it
\* open (it follows the hashes); seed picks one of two orders.
IterStrs(S, seed) == IF seed = 0 THEN SortedStrs(S) ELSE Reverse(SortedStrs(S))

\* The order in which a Python set of tuples is iterated, likewise.
IterTuples(S, seed) == IF seed = 0 THEN SortedTuples(S) ELSE Reverse(SortedTuples(S))

Range(q) == { q[i] : i \in 1..Len(q) }

\* d.get(k, default) on a dict modelled as a function.
Get(d, k, default) == IF k \in DOMAIN d THEN d[k] ELSE default

\* d[k] = v
Put(d, k, v) == [x \in (DOMAIN d) \cup {k} |-> IF x = k THEN v ELSE d[x]]

\* The dict with no key.
EmptyDict == [x \in {} |-> <<>>]

\* ------------------------------------------------------------ reading the bookings

\* if day and room and start and end
RowComplete(row) ==
    row.Day # "" /\ row.Room # <<>> /\ row.StartTime # <<>> /\ row.EndTime # <<>>

\* timings_by_day_room[day][room].append((start, end))
AppendTiming(timings, row) ==
    LET of_day  == Get(timings, row.Day, EmptyDict)
        of_room == Get(of_day, row.Room, <<>>)
    IN  Put(timings, row.Day,
            Put(of_day, row.Room, Append(of_room, << row.StartTime, row.EndTime >>)))

\* The loop with rooms_set.add(room) before the test of the four fields.
RECURSIVE ReadRowsEager(_, _, _)
ReadRowsEager(csv_rows, timings, rooms) ==
    IF csv_rows = <<>> THEN [timings |-> timings, rooms |-> rooms]
    ELSE LET row == Head(csv_rows)
             named == IF row.Room # <<>> THEN rooms \cup {row.Room} ELSE rooms
         IN  IF RowComplete(row)
             THEN ReadRowsEager(Tail(csv_rows), AppendTiming(timings, row), named)
             ELSE ReadRowsEager(Tail(csv_rows), timings, named)

\* for row in reader: a complete row is appended to its day's and room's list
\* and its room is added to rooms_set; any other row is passed over.
RECURSIVE ReadRows(_, _, _)
ReadRows(csv_rows, timings, rooms) ==
    IF csv_rows = <<>> THEN [timings |-> timings, rooms |-> rooms]
    ELSE LET row == Head(csv_rows)
         IN  IF RowComplete(row)
             THEN ReadRows(Tail(csv_rows), AppendTiming(timings, row), rooms \cup {row.Room})
             ELSE ReadRows(Tail(csv_rows), timings, rooms)

\* fetch_all_timings_paginated: the Timings rows with all four fields.
RECURSIVE FetchTimings(_, _)
FetchTimings(db_rows, timings) ==
    IF db_rows = <<>> THEN timings
    ELSE FetchTimings(Tail(db_rows),
                      IF RowComplete(Head(db_rows)) THEN AppendTiming(timings, Head(db_rows))
                      ELSE timings)

\* for day in timings_by_day_room: for room in timings_by_day_room[day]:
\* rooms_set.add(room)
RoomsOfTimings(timings) == UNION { DOMAIN timings[d] : d \in DOMAIN timings }

\* ------------------------------------------------------------ short codes

\* for room in rooms_set: shortcode_to_rooms[short_code].append(room)
RECURSIVE BuildShortcodes(_, _)
BuildShortcodes(rooms, s2r) ==
    IF rooms = <<>> THEN s2r
    ELSE LET sc == get_room_short_code(Head(rooms))
         IN  BuildShortcodes(Tail(rooms), Put(s2r, sc, Append(Get(s2r, sc, <<>>), Head(rooms))))

ShortcodeToRooms(rooms, seed) == BuildShortcodes(IterStrs(rooms, seed), EmptyDict)

\* ------------------------------------------------------------ expand_rooms_set

\* The turn with "and" where the code has "or": the combined rooms are added
\* only when both individuals are in the base set.
ExpandRule_and(acc, base_shortcodes, rule, s2r) ==
    LET with_inds ==
            IF rule.combined \in base_shortcodes
            THEN acc \cup Range(Get(s2r, rule.ind_a, <<>>))
                     \cup Range(Get(s2r, rule.ind_b, <<>>))
            ELSE acc
    IN  IF rule.ind_a \in base_shortcodes /\ rule.ind_b \in base_shortcodes
        THEN with_inds \cup Range(Get(s2r, rule.combined, <<>>))
        ELSE with_inds

\* One turn of the loop over COMBINED_ROOM_MAP in expand_rooms_set.
ExpandRule(acc, base_shortcodes, rule, s2r) ==
    LET with_inds ==
            IF rule.combined \in base_shortcodes
            THEN acc \cup Range(Get(s2r, rule.ind_a, <<>>))
                     \cup Range(Get(s2r, rule.ind_b, <<>>))
            ELSE acc
    IN  IF rule.ind_a \in base_shortcodes \/ rule.ind_b \in base_shortcodes
        THEN with_inds \cup Range(Get(s2r, rule.combined, <<>>))
        ELSE with_inds

RECURSIVE ExpandRules(_, _, _, _)
ExpandRules(acc, base_shortcodes, rules, s2r) ==
    IF rules = <<>> THEN acc
    ELSE ExpandRules(ExpandRule(acc, base_shortcodes, Head(rules), s2r),
                     base_shortcodes, Tail(rules), s2r)

\* expand_rooms_set with expanded = base_rooms, the caller's set itself, in
\* place of a copy of it: the updates reach the caller's set.
expand_rooms_set_alias(base, s2r) ==
    LET result == ExpandRules(base, { get_room_short_code(r) : r \in base },
                              COMBINED_ROOM_MAP, s2r)
    IN  [base_rooms |-> result, expanded |-> result]

\* expand_rooms_set adding, for a rule with an individual in the base set,
\* the combined short code itself as a room when no known name has it.
expand_rooms_set_codes(base, s2r) ==
    LET codes == { get_room_short_code(r) : r \in base }
    IN  [base_rooms |-> base,
         expanded |-> ExpandRules(base, codes, COMBINED_ROOM_MAP, s2r)
                      \cup { COMBINED_ROOM_MAP[n].combined : n \in
                               { k \in 1..Len(COMBINED_ROOM_MAP) :
                                   /\ \/ COMBINED_ROOM_MAP[k].ind_a \in codes
                                      \/ COMBINED_ROOM_MAP[k].ind_b \in codes
                                   /\ COMBINED_ROOM_MAP[k].combined \notin DOMAIN s2r } }]

\* expanded = set(base_rooms); then the loop over the rules; return expanded.
\* The value holds the caller's set after the call and the set returned.
expand_rooms_set(base, s2r) ==
    [base_rooms |-> base,
     expanded |-> ExpandRules(base, { get_room_short_code(r) : r \in base },
                              COMBINED_ROOM_MAP, s2r)]

\* ------------------------------------------------------------ effective timings

\* orig = []; for room in rooms: orig.extend(timings_for_day.get(room, []))
RECURSIVE OrigIntervals(_, _)
OrigIntervals(rooms, timings_for_day) ==
    IF rooms = <<>> THEN <<>>
    ELSE Get(timings_for_day, Head(rooms), <<>>) \o OrigIntervals(Tail(rooms), timings_for_day)

\* The append without the test "not in effective_timings[room]".
AppendNewUnchecked(effective, room, intervals, seed) ==
    IF intervals = {} THEN effective
    ELSE Put(effective, room, Get(effective, room, <<>>) \o IterTuples(intervals, seed))

\* for s, e in intervals: if (s, e) not in effective_timings[room]:
\* effective_timings[room].append((s, e)), intervals being a set. The
\* defaultdict gets the key only when the loop body runs.
AppendNew(effective, room, intervals, seed) ==
    IF intervals = {} THEN effective
    ELSE LET old == Get(effective, room, <<>>)
         IN  Put(effective, room, old \o IterTuples(intervals \ Range(old), seed))

RECURSIVE AppendNewAll(_, _, _, _)
AppendNewAll(effective, rooms, intervals, seed) ==
    IF rooms = <<>> THEN effective
    ELSE AppendNewAll(AppendNew(effective, Head(rooms), intervals, seed),
                      Tail(rooms), intervals, seed)

\* One rule with the union taken over both individuals' effective neighbours:
\* the individuals inherit the union instead of the combined room's intervals.
ApplyRuleChained(effective, rule, timings_for_day, s2r, seed) ==
    LET combined_rooms == Get(s2r, rule.combined, <<>>)
        ind_a_rooms    == Get(s2r, rule.ind_a, <<>>)
        ind_b_rooms    == Get(s2r, rule.ind_b, <<>>)
        union_intervals == Range(OrigIntervals(combined_rooms, timings_for_day))
                           \cup Range(OrigIntervals(ind_a_rooms, timings_for_day))
                           \cup Range(OrigIntervals(ind_b_rooms, timings_for_day))
    IN  AppendNewAll(
            AppendNewAll(
                AppendNewAll(effective, combined_rooms, union_intervals, seed),
                ind_a_rooms, union_intervals, seed),
            ind_b_rooms, union_intervals, seed)

\* One rule with the union given to every room that has timings on the day,
\* not to the combined rooms only.
ApplyRuleEveryRoom(effective, rule, timings_for_day, s2r, seed) ==
    LET combined_rooms == Get(s2r, rule.combined, <<>>)
        ind_a_rooms    == Get(s2r, rule.ind_a, <<>>)
        ind_b_rooms    == Get(s2r, rule.ind_b, <<>>)
        orig_combined  == OrigIntervals(combined_rooms, timings_for_day)
        orig_a         == OrigIntervals(ind_a_rooms, timings_for_day)
        orig_b         == OrigIntervals(ind_b_rooms, timings_for_day)
        union_intervals == Range(orig_combined \o orig_a \o orig_b)
        combined_intervals == Range(orig_combined)
    IN  AppendNewAll(
            AppendNewAll(
                AppendNewAll(effective, SortedStrs(DOMAIN effective \cup Range(combined_rooms)),
                             union_intervals, seed),
                ind_a_rooms, combined_intervals, seed),
            ind_b_rooms, combined_intervals, seed)

\* One rule with the second individual left out of the union.
ApplyRuleHalfUnion(effective, rule, timings_for_day, s2r, seed) ==
    LET combined_rooms == Get(s2r, rule.combined, <<>>)
        ind_a_rooms    == Get(s2r, rule.ind_a, <<>>)
        ind_b_rooms    == Get(s2r, rule.ind_b, <<>>)
        orig_combined  == OrigIntervals(combined_rooms, timings_for_day)
        orig_a         == OrigIntervals(ind_a_rooms, timings_for_day)
        union_intervals == Range(orig_combined \o orig_a)
        combined_intervals == Range(orig_combined)
    IN  AppendNewAll(
            AppendNewAll(
                AppendNewAll(effective, combined_rooms, union_intervals, seed),
                ind_a_rooms, combined_intervals, seed),
            ind_b_rooms, combined_intervals, seed)

\* One turn of the loop over COMBINED_ROOM_MAP in the day loop: the combined
\* rooms get the union of the original intervals of the combined rooms and of
\* both individuals; the individuals get the combined rooms' original ones.
ApplyRule(effective, rule, timings_for_day, s2r, seed) ==
    LET combined_rooms == Get(s2r, rule.combined, <<>>)
        ind_a_rooms    == Get(s2r, rule.ind_a, <<>>)
        ind_b_rooms    == Get(s2r, rule.ind_b, <<>>)
        orig_combined  == OrigIntervals(combined_rooms, timings_for_day)
        orig_a         == OrigIntervals(ind_a_rooms, timings_for_day)
        orig_b         == OrigIntervals(ind_b_rooms, timings_for_day)
        union_intervals == Range(orig_combined \o orig_a \o orig_b)
        combined_intervals == Range(orig_combined)
    IN  AppendNewAll(
            AppendNewAll(
                AppendNewAll(effective, combined_rooms, union_intervals, seed),
                ind_a_rooms, combined_intervals, seed),
            ind_b_rooms, combined_intervals, seed)

RECURSIVE ApplyRules(_, _, _, _, _)
ApplyRules(effective, rules, timings_for_day, s2r, seed) ==
    IF rules = <<>> THEN effective
    ELSE ApplyRules(ApplyRule(effective, Head(rules), timings_for_day, s2r, seed),
                    Tail(rules), timings_for_day, s2r, seed)

\* effective_timings of one day: each booked room starts with its sorted,
\* de-duplicated intervals, then the rules are applied.
EffectiveTimings(timings_for_day, s2r, seed) ==
    ApplyRules([r \in DOMAIN timings_for_day |-> SortedTuples(Range(timings_for_day[r]))],
               COMBINED_ROOM_MAP, timings_for_day, s2r, seed)

\* ------------------------------------------------------------ schedule builder

\* The row with one slot too few: range(slot_count - 2).
Availability_short(timings) ==
    [i \in 1..(Len(TIME_SLOTS) - 2) |->
        IF is_slot_available(TIME_SLOTS[i], TIME_SLOTS[i + 1], timings) THEN 1 ELSE 0]

\* for i in range(slot_count - 1): availability.append(1 if available else 0)
Availability(timings) ==
    [i \in 1..(Len(TIME_SLOTS) - 1) |->
        IF is_slot_available(TIME_SLOTS[i], TIME_SLOTS[i + 1], timings) THEN 1 ELSE 0]

\* The rows with the rooms that have timings on the day ahead of the others.
RoomRowsBookedFirst(rooms, effective) ==
    LET order == SortedStrs(rooms \cap DOMAIN effective) \o SortedStrs(rooms \ DOMAIN effective)
    IN  [i \in 1..Len(order) |->
            [room |-> order[i], availability |-> Availability(Get(effective, order[i], <<>>))]]

\* for room in sorted(rooms_set): one row per room
RoomRows(rooms, effective) ==
    LET order == SortedStrs(rooms)
    IN  [i \in 1..Len(order) |->
            [room |-> order[i], availability |-> Availability(Get(effective, order[i], <<>>))]]

\* day_data of one day
DayData(day, rooms, effective) == [day |-> day, rooms |-> RoomRows(rooms, effective)]

\* generate_schedule_data_from_csv on a readable CSV, as one function of the
\* rows and of the iteration order of the process's sets.
generate_schedule_data_from_csv(csv_rows, seed) ==
    LET read  == ReadRows(csv_rows, EmptyDict, {})
        s2r   == ShortcodeToRooms(read.rooms, seed)
        rooms == expand_rooms_set(read.rooms, s2r).expanded
    IN  [i \in 1..Len(DAYS_OF_WEEK) |->
            DayData(DAYS_OF_WEEK[i], rooms,
                    EffectiveTimings(Get(read.timings, DAYS_OF_WEEK[i], EmptyDict), s2r, seed))]

\* ------------------------------------------------------------ save_schedule_to_json

\* scheduleData.json: missing, not parsable, or the JSON of a schedule.
AbsentFile == [kind |-> "absent", data |-> <<>>]

CorruptFile == [kind |-> "corrupt", data |-> <<>>]

JsonFile(schedule_data) == [kind |-> "json", data |-> schedule_data]

\* What the three outcomes of the file operations are.
IoOutcomes == { "ok", "open_error", "dump_error" }

\* A save that first loads the existing file to compare with it, and so
\* raises when there is none or it does not parse.
save_schedule_to_json_loading(schedule_data, file, io) ==
    IF file.kind # "json" THEN [file |-> file, ok |-> FALSE]
    ELSE IF io = "ok" THEN [file |-> JsonFile(schedule_data), ok |-> TRUE]
    ELSE IF io = "open_error" THEN [file |-> file, ok |-> FALSE]
    ELSE [file |-> CorruptFile, ok |-> FALSE]

\* save_schedule_to_json: mkdir, open for writing, json.dump; True. An error
\* before the file is open leaves it as it was, one after it leaves a
\* truncated file; both are caught and False is returned. The existing file
\* is never read.
save_schedule_to_json(schedule_data, file, io) ==
    IF io = "ok" THEN [file |-> JsonFile(schedule_data), ok |-> TRUE]
    ELSE IF io = "open_error" THEN [file |-> file, ok |-> FALSE]
    ELSE [file |-> CorruptFile, ok |-> FALSE]

\* ------------------------------------------------------------ SpecOverlap

\* Times of day, HH:MM, that the overlap test is tried on.
OverlapTimes == { TIME_SLOTS[i] : i \in 1..4 }

OverlapIntervals == OverlapTimes \X OverlapTimes

BusyLists == UNION { [1..n -> OverlapIntervals] : n \in 0..MaxBusy }

OvIdle ==
    /\ slot_start = <<>> /\ slot_end = <<>> /\ room_timings = <<>>
    /\ ov_pc = "idle" /\ available = TRUE
    /\ longer_timings = <<>> /\ available_longer = TRUE
    /\ legacy_available = TRUE

UpIdle ==
    /\ up_pc = "idle" /\ csv_file = "ok" /\ csv_lines = <<>> /\ row_index = 0
    /\ rows_to_insert = <<>> /\ total_rows_in_csv = 0 /\ inserted_count = 0
    /\ skipped_count = 0 /\ insert_calls = <<>> /\ delete_returned = "none"
    /\ insert_returned = "none" /\ up_exit_code = -1

FpIdle ==
    /\ fp_pc = "idle" /\ max_retries = 5 /\ fp_call = 1 /\ attempt = 0
    /\ get_log = <<>> /\ replaced_after = <<>> /\ fp_outcome = "none"
    /\ fp_exception = 0 /\ scrape_returned = "none" /\ fp_exit_code = -1

\* new_room_data is unbound until find_new_rooms_from_csv has returned.
UnboundRooms == [kind |-> "unbound", rooms |-> {}]

UrIdle ==
    /\ ur_pc = "idle" /\ ur_csv = "ok" /\ ur_csv_rooms = <<>> /\ existing_names = {}
    /\ csv_error = "none" /\ new_room_data = UnboundRooms /\ ur_insert_calls = <<>>
    /\ ur_final_success = "False" /\ ur_exit_code = -1

ScriptsIdle == UpIdle /\ FpIdle /\ UrIdle

ScIdle ==
    /\ full_name = <<>> /\ sc_pc = "idle"
    /\ short_generate = <<>> /\ short_update = <<>> /\ short_scrape = <<>>

ExIdle == base_rooms = {} /\ ex_pc = "idle" /\ expanded = {} /\ expanded_again = {}

\* The globals as generate_schedule.py defines them, in a first run.
ShippedConfig == config = "shipped" /\ run_number = 1

EnvIdle ==
    /\ rows = <<>> /\ csv_ok = TRUE /\ hash_seed = 0 /\ previous_file = AbsentFile
    /\ ShippedConfig

\* The locals of a run before it starts.
RunStart(p) ==
    /\ pc = p
    /\ rooms_info = <<>>
    /\ timings_by_day_room = EmptyDict
    /\ rooms_set = {}
    /\ shortcode_to_rooms = EmptyDict
    /\ day_index = 0
    /\ effective_timings = EmptyDict
    /\ schedule = <<>>
    /\ output_file = previous_file
    /\ save_io = "none"
    /\ final_success = FALSE
    /\ exit_code = -1

OvInit ==
    /\ slot_start \in OverlapTimes
    /\ slot_end \in OverlapTimes
    /\ room_timings \in BusyLists
    /\ ov_pc = "call"
    /\ available = TRUE
    /\ longer_timings = <<>>
    /\ available_longer = TRUE
    /\ legacy_available = TRUE
    /\ ScIdle /\ ExIdle /\ EnvIdle /\ RunStart("idle") /\ ScriptsIdle

\* One call is_slot_available(slot_start, slot_end, room_timings).
CallIsSlotAvailable ==
    /\ ov_pc = "call"
    /\ available' = is_slot_available(slot_start, slot_end, room_timings)
    /\ ov_pc' = "returned"
    /\ UNCHANGED << slot_start, slot_end, room_timings, longer_timings, available_longer,
                    legacy_available >>
    /\ UNCHANGED << scVars, exVars, envVars, runVars, scriptVars >>

\* The list with one more (start, end) tuple at position k.
InsertAt(timings, k, interval) ==
    SubSeq(timings, 1, k - 1) \o << interval >> \o SubSeq(timings, k, Len(timings))

\* A second call is_slot_available(slot_start, slot_end, longer_timings) for
\* the same slot, on the list with any one interval more, at any position.
CallOnLongerList ==
    /\ ov_pc = "returned"
    /\ Len(room_timings) < MaxBusy
    /\ \E interval \in OverlapIntervals, k \in 1..(Len(room_timings) + 1) :
           /\ longer_timings' = InsertAt(room_timings, k, interval)
           /\ available_longer' = is_slot_available(slot_start, slot_end, longer_timings')
    /\ ov_pc' = "returned_again"
    /\ UNCHANGED << slot_start, slot_end, room_timings, available, legacy_available >>
    /\ UNCHANGED << scVars, exVars, envVars, runVars, scriptVars >>

\* generateschedule.py, generate_schedule_data: the probe of the slot that
\* starts at TIME_SLOTS[i], TIME_SLOTS[i][:-1] + '1' and TIME_SLOTS[i][:-1] + '2'.
LegacyProbe(slot, digit) == SubSeq(slot, 1, Len(slot) - 1) \o << digit >>

\* The query with AND where the SQL has OR.
check_room_availability_and(bookings, start_time, end_time) ==
    ~ \E k \in 1..Len(bookings) :
        ~ (/\ ~StrGT(bookings[k][2], start_time)
           /\ ~StrLT(bookings[k][1], end_time))

\* generateschedule.py, check_room_availability over the (StartTime, EndTime)
\* pairs of the room and day: available when no row has
\* NOT ("EndTime" <= $3 OR "StartTime" >= $4).
check_room_availability(bookings, start_time, end_time) ==
    ~ \E k \in 1..Len(bookings) :
        ~ (\/ ~StrGT(bookings[k][2], start_time)
           \/ ~StrLT(bookings[k][1], end_time))

\* The legacy generator's check of the slot that starts at slot_start.
CallLegacyCheck ==
    /\ ov_pc = "returned"
    /\ legacy_available' = check_room_availability(room_timings,
                                                   LegacyProbe(slot_start, "1"),
                                                   LegacyProbe(slot_start, "2"))
    /\ ov_pc' = "compared"
    /\ UNCHANGED << slot_start, slot_end, room_timings, available,
                    longer_timings, available_longer >>
    /\ UNCHANGED << scVars, exVars, envVars, runVars, scriptVars >>

OvNext == CallIsSlotAvailable \/ CallOnLongerList \/ CallLegacyCheck

SpecOverlap == OvInit /\ [][OvNext]_vars

\* ------------------------------------------------------------ SpecExpand

R5134 == <<"5",".","1","3","4","-","A">>

R513 == <<"5",".","1","3","-","A">>

R513b == <<"5",".","1","3"," ","-","B">>

R514 == <<"5",".","1","4","-","A">>

R510 == <<"5",".","1","0">>

R4467 == <<"4",".","4","6","7","-","A">>

R446 == <<"4",".","4","6","-","B">>

ROnline == <<"O","n","l","i","n","e">>

\* Room full names the expansion is tried on: a combined room, its two
\* individuals (one of them under two names), a room no rule names, and a
\* combined room and an individual of another rule.
ExpandRooms == { R5134, R513, R513b, R514, R510, R4467, R446 }

HashSeeds == { 0, 1 }

\* shortcode_to_rooms is built from any set of names, and expand_rooms_set is
\* called on any set of names.
ExInit ==
    /\ hash_seed \in HashSeeds
    /\ \E known \in SUBSET ExpandRooms :
           shortcode_to_rooms = ShortcodeToRooms(known, hash_seed)
    /\ base_rooms \in SUBSET ExpandRooms
    /\ ex_pc = "call"
    /\ expanded = {}
    /\ expanded_again = {}
    /\ OvIdle /\ ScIdle /\ ShippedConfig /\ ScriptsIdle
    /\ rows = <<>> /\ csv_ok = TRUE /\ previous_file = AbsentFile
    /\ pc = "idle"
    /\ rooms_info = <<>>
    /\ timings_by_day_room = EmptyDict
    /\ rooms_set = {}
    /\ day_index = 0
    /\ effective_timings = EmptyDict
    /\ schedule = <<>>
    /\ output_file = AbsentFile
    /\ save_io = "none"
    /\ final_success = FALSE
    /\ exit_code = -1

\* expanded = expand_rooms_set(base_rooms)
CallExpand ==
    /\ ex_pc = "call"
    /\ LET r == expand_rooms_set(base_rooms, shortcode_to_rooms)
       IN  base_rooms' = r.base_rooms /\ expanded' = r.expanded
    /\ ex_pc' = "again"
    /\ UNCHANGED << expanded_again, ovVars, scVars, envVars, runVars, scriptVars >>

\* expanded_again = expand_rooms_set(expanded)
CallExpandAgain ==
    /\ ex_pc = "again"
    /\ LET r == expand_rooms_set(expanded, shortcode_to_rooms)
       IN  expanded' = r.base_rooms /\ expanded_again' = r.expanded
    /\ ex_pc' = "returned"
    /\ UNCHANGED << base_rooms, ovVars, scVars, envVars, runVars, scriptVars >>

ExNext == CallExpand \/ CallExpandAgain

SpecExpand == ExInit /\ [][ExNext]_vars

\* ------------------------------------------------------------ Spec

R511 == <<"5",".","1","1","-","B">>

T0900 == TIME_SLOTS[2]

T0930 == TIME_SLOTS[3]

T1000 == TIME_SLOTS[4]

T1030 == TIME_SLOTS[5]

T1100 == TIME_SLOTS[6]

T1200 == TIME_SLOTS[8]

T1400 == TIME_SLOTS[12]

T1430 == TIME_SLOTS[13]

Booking(day, room, start, end) ==
    [Day |-> day, Room |-> room, StartTime |-> start, EndTime |-> end]

\* The booking records a source may hold: the combined room 5.134, its
\* individuals 5.13 (under two names) and 5.14 on two days, one of them over
\* the combined room's own interval, a room no rule names, and a record
\* without a day.
BookingPool ==
    { Booking("Monday", R5134, T0900, T1000),
      Booking("Monday", R513, T0930, T1030),
      Booking("Monday", R514, T1400, T1430),
      Booking("Tuesday", R513, T0900, T0930),
      Booking("Monday", R510, T0900, T0930),
      Booking("Monday", R513b, T1100, T1200),
      Booking("Monday", R514, T0900, T1000),
      Booking("", R514, T0900, T0930) }

RowSeqs == UNION { [1..n -> BookingPool] : n \in 0..MaxRows }

\* The Rooms table: the catalog of rooms, with a room that is never booked.
RoomsTable ==
    { [ShortCode |-> get_room_short_code(n), Name |-> n] :
        n \in { R5134, R513, R514, R510, R511, ROnline } }

\* fetch_rooms_data_paginated: the rooms other than Consultation and Online
\* that have a short code and a name, by name.
FetchRooms ==
    LET names == { r.Name : r \in { x \in RoomsTable : x.Name # ROnline /\ x.ShortCode # <<>> /\ x.Name # <<>> } }
        order == SortedStrs(names)
    IN  [i \in 1..Len(order) |->
            [short_code |-> (CHOOSE x \in RoomsTable : x.Name = order[i]).ShortCode,
             full_name |-> order[i]]]

\* A first run, the iteration order of its sets open: any bookings, a CSV that
\* can or cannot be read, no scheduleData.json yet.
Init ==
    /\ rows \in RowSeqs
    /\ csv_ok \in BOOLEAN
    /\ hash_seed \in HashSeeds
    /\ previous_file = AbsentFile
    /\ ShippedConfig
    /\ RunStart("read")
    /\ OvIdle /\ ScIdle /\ ExIdle /\ ScriptsIdle

\* The try block of generate_schedule_data_from_csv on a readable CSV.
ReadCsv ==
    /\ pc = "read" /\ csv_ok
    /\ LET read == ReadRows(rows, EmptyDict, {})
       IN  timings_by_day_room' = read.timings /\ rooms_set' = read.rooms
    /\ pc' = "expand"
    /\ UNCHANGED << rooms_info, shortcode_to_rooms, day_index, effective_timings,
                    schedule, output_file, save_io, final_success, exit_code >>
    /\ UNCHANGED << ovVars, scVars, exVars, envVars, scriptVars >>

\* The except block: the CSV cannot be read, rooms and timings are fetched
\* from Supabase and rooms_set is rebuilt from the timings.
FallbackToSupabase ==
    /\ pc = "read" /\ ~csv_ok
    /\ rooms_info' = FetchRooms
    /\ timings_by_day_room' = FetchTimings(rows, EmptyDict)
    /\ rooms_set' = RoomsOfTimings(timings_by_day_room')
    /\ pc' = "expand"
    /\ UNCHANGED << shortcode_to_rooms, day_index, effective_timings,
                    schedule, output_file, save_io, final_success, exit_code >>
    /\ UNCHANGED << ovVars, scVars, exVars, envVars, scriptVars >>

\* shortcode_to_rooms is built from rooms_set, and
\* rooms_set = expand_rooms_set(rooms_set).
ExpandRoomsSet ==
    /\ pc = "expand"
    /\ shortcode_to_rooms' = ShortcodeToRooms(rooms_set, hash_seed)
    /\ rooms_set' = expand_rooms_set(rooms_set, shortcode_to_rooms').expanded
    /\ pc' = "days"
    /\ UNCHANGED << rooms_info, timings_by_day_room, day_index, effective_timings,
                    schedule, output_file, save_io, final_success, exit_code >>
    /\ UNCHANGED << ovVars, scVars, exVars, envVars, scriptVars >>

\* One turn of for day in DAYS_OF_WEEK: the day's effective timings, then a
\* row for every room of rooms_set; day_data is appended to schedule.
ProcessDay ==
    /\ pc = "days"
    /\ LET day == DAYS_OF_WEEK[day_index + 1]
           timings_for_day == Get(timings_by_day_room, day, EmptyDict)
           effective == EffectiveTimings(timings_for_day, shortcode_to_rooms, hash_seed)
       IN  /\ effective_timings' = Put(effective_timings, day, effective)
           /\ schedule' = Append(schedule, DayData(day, rooms_set, effective))
    /\ day_index' = day_index + 1
    /\ pc' = IF day_index' = Len(DAYS_OF_WEEK) THEN "save" ELSE "days"
    /\ UNCHANGED << rooms_info, timings_by_day_room, rooms_set, shortcode_to_rooms,
                    output_file, save_io, final_success, exit_code >>
    /\ UNCHANGED << ovVars, scVars, exVars, envVars, scriptVars >>

\* final_success = save_schedule_to_json(generated_schedule)
Save ==
    /\ pc = "save"
    /\ \E io \in IoOutcomes :
           LET r == save_schedule_to_json(schedule, output_file, io)
           IN  output_file' = r.file /\ final_success' = r.ok /\ save_io' = io
    /\ pc' = "exit"
    /\ UNCHANGED << rooms_info, timings_by_day_room, rooms_set, shortcode_to_rooms,
                    day_index, effective_timings, schedule, exit_code >>
    /\ UNCHANGED << ovVars, scVars, exVars, envVars, scriptVars >>

\* sys.exit(0) if final_success else sys.exit(1)
Exit ==
    /\ pc = "exit"
    /\ exit_code' = IF final_success THEN 0 ELSE 1
    /\ pc' = "done"
    /\ UNCHANGED << rooms_info, timings_by_day_room, rooms_set, shortcode_to_rooms,
                    day_index, effective_timings, schedule, output_file, save_io,
                    final_success >>
    /\ UNCHANGED << ovVars, scVars, exVars, envVars, scriptVars >>

Next == ReadCsv \/ FallbackToSupabase \/ ExpandRoomsSet \/ ProcessDay \/ Save \/ Exit

Spec == Init /\ [][Next]_vars

\* ------------------------------------------------------------ SpecPublish

\* The bookings of the run that wrote the file a run finds.
PreviousRows == << Booking("Monday", R513, T0930, T1030) >>

\* scheduleData.json as a run may find it.
PreviousFiles ==
    { AbsentFile, CorruptFile, JsonFile(generate_schedule_data_from_csv(PreviousRows, 0)) }

\* The bookings of a run that finds a file: those of the previous run, a
\* booking of the same room moved to another day, and one of another room.
PublishPool ==
    { Booking("Monday", R513, T0930, T1030),
      Booking("Tuesday", R513, T0900, T0930),
      Booking("Monday", R5134, T0900, T1000) }

PublishRowSeqs == UNION { [1..n -> PublishPool] : n \in 0..MaxRows }

PubInit ==
    /\ rows \in PublishRowSeqs
    /\ csv_ok \in BOOLEAN
    /\ hash_seed = 0
    /\ previous_file \in PreviousFiles
    /\ ShippedConfig
    /\ RunStart("read")
    /\ OvIdle /\ ScIdle /\ ExIdle /\ ScriptsIdle

SpecPublish == PubInit /\ [][Next]_vars

\* ------------------------------------------------------------ SpecShortCode

\* The longest room name tried.
MaxNameLen == 4

\* The characters of the names: the separator, the blank, a digit, a letter.
NameChars == { "-", " ", "5", "A" }

RoomNames == UNION { [1..n -> NameChars] : n \in 0..MaxNameLen }

ScInit ==
    /\ full_name \in RoomNames
    /\ sc_pc = "generate"
    /\ short_generate = <<>> /\ short_update = <<>> /\ short_scrape = <<>>
    /\ OvIdle /\ ExIdle /\ EnvIdle /\ RunStart("idle") /\ ScriptsIdle

\* generate_schedule.py: get_room_short_code(full_name)
GenerateShortCode ==
    /\ sc_pc = "generate"
    /\ short_generate' = get_room_short_code(full_name)
    /\ sc_pc' = "update"
    /\ UNCHANGED << full_name, short_update, short_scrape >>
    /\ UNCHANGED << ovVars, exVars, envVars, runVars, scriptVars >>

\* update_rooms.py: the ShortCode of the room that is inserted
UpdateRoomsShortCode ==
    /\ sc_pc = "update"
    /\ short_update' = update_rooms_ShortCode(full_name)
    /\ sc_pc' = "scrape"
    /\ UNCHANGED << full_name, short_generate, short_scrape >>
    /\ UNCHANGED << ovVars, exVars, envVars, runVars, scriptVars >>

\* scrape_timetable.py: the room_code of a location
ScrapeRoomCode ==
    /\ sc_pc = "scrape"
    /\ short_scrape' = scrape_timetable_room_code(full_name)
    /\ sc_pc' = "derived"
    /\ UNCHANGED << full_name, short_generate, short_update >>
    /\ UNCHANGED << ovVars, exVars, envVars, runVars, scriptVars >>

ScNext == GenerateShortCode \/ UpdateRoomsShortCode \/ ScrapeRoomCode

SpecShortCode == ScInit /\ [][ScNext]_vars

\* ------------------------------------------------------------ SpecOrder

\* Bookings that reach a room in more than one way: the combined room 5.134
\* booked on Tuesday only, its individuals booked at different times on
\* Monday, one of them also over the combined room's interval on Tuesday, and
\* a room no rule names.
OrderPool ==
    { Booking("Tuesday", R5134, T1400, T1430),
      Booking("Monday", R513, T0930, T1030),
      Booking("Monday", R514, T1400, T1430),
      Booking("Tuesday", R514, T1400, T1430),
      Booking("Monday", R510, T0900, T0930) }

OrderRowSeqs == UNION { [1..n -> OrderPool] : n \in 0..MaxRows }

\* A run under either iteration order of the process's sets.
OrdInit ==
    /\ rows \in OrderRowSeqs
    /\ csv_ok \in BOOLEAN
    /\ hash_seed \in HashSeeds
    /\ previous_file = AbsentFile
    /\ ShippedConfig
    /\ RunStart("read")
    /\ OvIdle /\ ScIdle /\ ExIdle /\ ScriptsIdle

SpecOrder == OrdInit /\ [][Next]_vars

\* ------------------------------------------------------------ SpecData

\* The most booking records of a source with records of any quality.
MaxDataRows == 2

\* 9:00, without the leading zero.
T900 == << "9", ":", "0", "0" >>

\* Texts that are no time of day.
T2599 == << "2", "5", ":", "9", "9" >>

T2630 == << "2", "6", ":", "3", "0" >>

\* Timetable entries as the site gives them: a start without its leading
\* zero, an end and a start that are no time of day, entries without a day, a
\* room, a start or an end, an entry held online, and two well-formed ones.
ScrapedPool ==
    { Booking("Monday", R510, T900, T1100),
      Booking("Monday", R510, T0900, T2599),
      Booking("Monday", R510, T2599, T2630),
      Booking("", R511, T0900, T0930),
      Booking("Monday", <<>>, T0900, T0930),
      Booking("Monday", R511, <<>>, T0930),
      Booking("Monday", R511, T0900, <<>>),
      Booking("Monday", ROnline, T0900, T0930),
      Booking("Monday", R510, T1400, T1430),
      Booking("Monday", R513, T0930, T1030) }

\* scrape_timetable_auth.py writes StartTime and EndTime through
\* format_time_to_hh_mm.
FormattedEntry(entry) ==
    [entry EXCEPT !.StartTime = format_time_to_hh_mm(@),
                  !.EndTime = format_time_to_hh_mm(@)]

\* The records a source may hold: scrape_timetable.py writes the times of an
\* entry as they are, scrape_timetable_auth.py writes them formatted.
DataPool == ScrapedPool \cup { FormattedEntry(e) : e \in ScrapedPool }

DataRowSeqs == UNION { [1..n -> DataPool] : n \in 0..MaxDataRows }

DataInit ==
    /\ rows \in DataRowSeqs
    /\ csv_ok \in BOOLEAN
    /\ hash_seed = 0
    /\ previous_file = AbsentFile
    /\ ShippedConfig
    /\ RunStart("read")
    /\ OvIdle /\ ScIdle /\ ExIdle /\ ScriptsIdle

SpecData == DataInit /\ [][Next]_vars

\* ------------------------------------------------------------ SpecConfig

\* A combined-room table in which 5.13 is a constituent of two rules.
SharedConstituentMap ==
    << [combined |-> <<"5",".","1","2","3">>,
        ind_a |-> <<"5",".","1","2">>, ind_b |-> <<"5",".","1","3">>],
       [combined |-> <<"5",".","1","3","4">>,
        ind_a |-> <<"5",".","1","3">>, ind_b |-> <<"5",".","1","4">>] >>

\* The configurations a module may define: the one of the repository, a
\* boundary list with a boundary twice, one with a boundary out of order, and
\* a combined-room table with a shared constituent.
Configs == { "shipped", "repeated_boundary", "decreasing_boundary", "shared_constituent" }

\* TIME_SLOTS of a configuration.
ConfigSlots(c) ==
    IF c = "repeated_boundary" THEN << T0900, T0930, T0930, T1000 >>
    ELSE IF c = "decreasing_boundary" THEN << T0900, T1000, T0930, T1030 >>
    ELSE TIME_SLOTS

\* COMBINED_ROOM_MAP of a configuration.
ConfigRules(c) == IF c = "shared_constituent" THEN SharedConstituentMap ELSE COMBINED_ROOM_MAP

\* generate_schedule_data_from_csv on a readable CSV, reading the globals
\* TIME_SLOTS and COMBINED_ROOM_MAP as the module defines them: no statement
\* of the module or of the function tests either of them.
generate_schedule_data_with(slots, rules, csv_rows, seed) ==
    LET read  == ReadRows(csv_rows, EmptyDict, {})
        s2r   == ShortcodeToRooms(read.rooms, seed)
        rooms == ExpandRules(read.rooms, { get_room_short_code(r) : r \in read.rooms },
                             rules, s2r)
        order == SortedStrs(rooms)
        effective(day) ==
            LET timings_for_day == Get(read.timings, day, EmptyDict)
            IN  ApplyRules([r \in DOMAIN timings_for_day |->
                               SortedTuples(Range(timings_for_day[r]))],
                           rules, timings_for_day, s2r, seed)
    IN  [d \in 1..Len(DAYS_OF_WEEK) |->
            [day |-> DAYS_OF_WEEK[d],
             rooms |-> [i \in 1..Len(order) |->
                [room |-> order[i],
                 availability |-> [n \in 1..(Len(slots) - 1) |->
                    IF is_slot_available(slots[n], slots[n + 1],
                                         Get(effective(DAYS_OF_WEEK[d]), order[i], <<>>))
                    THEN 1 ELSE 0]]]]]

CfgInit ==
    /\ config \in Configs
    /\ run_number = 1
    /\ rows \in PublishRowSeqs
    /\ csv_ok = TRUE
    /\ hash_seed = 0
    /\ previous_file = AbsentFile
    /\ RunStart("configured")
    /\ OvIdle /\ ScIdle /\ ExIdle /\ ScriptsIdle

\* The module is loaded and the main block calls
\* generate_schedule_data_from_csv.
LoadAndGenerate ==
    /\ pc = "configured"
    /\ schedule' = generate_schedule_data_with(ConfigSlots(config), ConfigRules(config),
                                               rows, hash_seed)
    /\ pc' = "save"
    /\ UNCHANGED << rooms_info, timings_by_day_room, rooms_set, shortcode_to_rooms,
                    day_index, effective_timings, output_file, save_io, final_success,
                    exit_code >>
    /\ UNCHANGED << ovVars, scVars, exVars, envVars, scriptVars >>

CfgNext == LoadAndGenerate \/ Save \/ Exit

SpecConfig == CfgInit /\ [][CfgNext]_vars

\* ------------------------------------------------------------ SpecRuns

\* The most runs of the script in a sequence.
MaxRuns == 3

\* The most booking records of one run of a sequence.
MaxRunRows == 1

RunRowSeqs == UNION { [1..n -> PublishPool] : n \in 0..MaxRunRows }

\* The first run of a sequence: no scheduleData.json yet.
RunsInit ==
    /\ rows \in RunRowSeqs
    /\ csv_ok \in BOOLEAN
    /\ hash_seed = 0
    /\ previous_file = AbsentFile
    /\ ShippedConfig
    /\ RunStart("read")
    /\ OvIdle /\ ScIdle /\ ExIdle /\ ScriptsIdle

\* The script is started again after a run has exited: a new process with
\* fresh locals finds scheduleData.json as the last run left it, and the
\* bookings of the day.
StartNextRun ==
    /\ pc = "done"
    /\ run_number < MaxRuns
    /\ run_number' = run_number + 1
    /\ rows' \in RunRowSeqs
    /\ previous_file' = output_file
    /\ pc' = "read"
    /\ rooms_info' = <<>>
    /\ timings_by_day_room' = EmptyDict
    /\ rooms_set' = {}
    /\ shortcode_to_rooms' = EmptyDict
    /\ day_index' = 0
    /\ effective_timings' = EmptyDict
    /\ schedule' = <<>>
    /\ save_io' = "none"
    /\ final_success' = FALSE
    /\ exit_code' = -1
    /\ UNCHANGED << output_file, csv_ok, hash_seed, config >>
    /\ UNCHANGED << ovVars, scVars, exVars, scriptVars >>

RunsNext == Next \/ StartNextRun

SpecRuns == RunsInit /\ [][RunsNext]_vars

\* ------------------------------------------------------------ SpecUpload

\* The rows of one insert call: 500 in upload_timetable.py, scaled down so
\* that a CSV of a few rows fills batches.
BATCH_SIZE == 2

\* The most rows of classes.csv.
MaxCsvLines == 4

\* The required columns.
expected_headers == { "SubCode", "Class", "Day", "StartTime", "EndTime", "Room", "Teacher" }

CsvRow(day, teacher) ==
    [SubCode |-> "CSIT111", Class |-> "L1", Day |-> day, StartTime |-> "09:00",
     EndTime |-> "10:00", Room |-> "5.10", Teacher |-> teacher]

\* Rows of classes.csv: two with every field, one with an empty Teacher and
\* one with an empty Day (a missing value, None, is as falsy as "").
CsvRowPool ==
    { CsvRow("Monday", "A"), CsvRow("Tuesday", "B"), CsvRow("Monday", ""), CsvRow("", "A") }

CsvLineSeqs == UNION { [1..n -> CsvRowPool] : n \in 0..MaxCsvLines }

\* The test with Teacher left out of the fields it looks at.
all_required_but_teacher(insert_dict) ==
    \A h \in expected_headers \ { "Teacher" } : insert_dict[h] # ""

\* all(insert_dict.get(h) for h in expected_headers)
all_required(insert_dict) == \A h \in expected_headers : insert_dict[h] # ""

UpInit ==
    /\ up_pc = "delete"
    /\ csv_file \in { "ok", "missing", "bad_header" }
    /\ csv_lines \in CsvLineSeqs
    /\ csv_file # "ok" => csv_lines = <<>>
    /\ row_index = 0
    /\ rows_to_insert = <<>>
    /\ total_rows_in_csv = 0
    /\ inserted_count = 0
    /\ skipped_count = 0
    /\ insert_calls = <<>>
    /\ delete_returned = "none"
    /\ insert_returned = "none"
    /\ up_exit_code = -1
    /\ OvIdle /\ ScIdle /\ ExIdle /\ EnvIdle /\ RunStart("idle")
    /\ FpIdle /\ UrIdle

\* A main block that goes on to the insert whatever the deletion returned.
DeleteExistingTimingsIgnored ==
    /\ up_pc = "delete"
    /\ \E ok \in BOOLEAN : delete_returned' = IF ok THEN "True" ELSE "False"
    /\ up_pc' = "open"
    /\ UNCHANGED << csv_file, csv_lines, row_index, rows_to_insert, total_rows_in_csv,
                    inserted_count, skipped_count, insert_calls, insert_returned,
                    up_exit_code >>
    /\ UNCHANGED << ovVars, scVars, exVars, envVars, runVars, fpVars, urVars >>

\* if delete_existing_timings(): the delete succeeds and True is returned, or
\* it raises, the exception is caught and False is returned; the main block
\* goes on to the insert only after True.
DeleteExistingTimings ==
    /\ up_pc = "delete"
    /\ \E ok \in BOOLEAN :
           /\ delete_returned' = IF ok THEN "True" ELSE "False"
           /\ up_pc' = IF ok THEN "open" ELSE "exit"
    /\ UNCHANGED << csv_file, csv_lines, row_index, rows_to_insert, total_rows_in_csv,
                    inserted_count, skipped_count, insert_calls, insert_returned,
                    up_exit_code >>
    /\ UNCHANGED << ovVars, scVars, exVars, envVars, runVars, fpVars, urVars >>

\* insert_timings_from_csv up to the row loop: FileNotFoundError when the
\* file is missing and ValueError when a required column is, both caught,
\* False returned.
OpenCsv ==
    /\ up_pc = "open"
    /\ IF csv_file = "ok"
       THEN up_pc' = "rows" /\ insert_returned' = insert_returned
       ELSE up_pc' = "exit" /\ insert_returned' = "False"
    /\ UNCHANGED << csv_file, csv_lines, row_index, rows_to_insert, total_rows_in_csv,
                    inserted_count, skipped_count, insert_calls, delete_returned,
                    up_exit_code >>
    /\ UNCHANGED << ovVars, scVars, exVars, envVars, runVars, fpVars, urVars >>

\* One turn of for i, row in enumerate(reader): the row is counted; a row
\* with an empty required field is skipped; any other is appended to
\* (inserted_count adds len(response.data), whatever the table returned)
\* rows_to_insert, and when that holds BATCH_SIZE rows it is inserted and
\* cleared. An insert that raises ends the function: False is returned.
ProcessRow ==
    /\ up_pc = "rows" /\ row_index < Len(csv_lines)
    /\ row_index' = row_index + 1
    /\ total_rows_in_csv' = total_rows_in_csv + 1
    /\ LET insert_dict == csv_lines[row_index + 1]
           batch == Append(rows_to_insert, insert_dict)
       IN  IF ~all_required(insert_dict)
           THEN /\ skipped_count' = skipped_count + 1
                /\ up_pc' = "rows"
                /\ UNCHANGED << rows_to_insert, inserted_count, insert_calls, insert_returned >>
           ELSE IF Len(batch) >= BATCH_SIZE
           THEN \E ok \in BOOLEAN, returned \in 0..Len(batch) :
                    /\ insert_calls' = Append(insert_calls, [batch |-> batch, ok |-> ok])
                    /\ rows_to_insert' = IF ok THEN <<>> ELSE batch
                    /\ inserted_count' = IF ok THEN inserted_count + returned
                                         ELSE inserted_count
                    /\ insert_returned' = IF ok THEN insert_returned ELSE "False"
                    /\ up_pc' = IF ok THEN "rows" ELSE "exit"
                    /\ UNCHANGED skipped_count
           ELSE /\ rows_to_insert' = batch
                /\ up_pc' = "rows"
                /\ UNCHANGED << skipped_count, inserted_count, insert_calls, insert_returned >>
    /\ UNCHANGED << csv_file, csv_lines, delete_returned, up_exit_code >>
    /\ UNCHANGED << ovVars, scVars, exVars, envVars, runVars, fpVars, urVars >>

\* After the loop: if rows_to_insert: the remaining rows are inserted; then
\* the summary and return True, or False when the insert raises.
FinishInsert ==
    /\ up_pc = "rows" /\ row_index = Len(csv_lines)
    /\ IF rows_to_insert # <<>>
       THEN \E ok \in BOOLEAN, returned \in 0..Len(rows_to_insert) :
                /\ insert_calls' = Append(insert_calls, [batch |-> rows_to_insert, ok |-> ok])
                /\ inserted_count' = IF ok THEN inserted_count + returned
                                     ELSE inserted_count
                /\ insert_returned' = IF ok THEN "True" ELSE "False"
       ELSE /\ insert_returned' = "True"
            /\ UNCHANGED << insert_calls, inserted_count >>
    /\ up_pc' = "exit"
    /\ UNCHANGED << csv_file, csv_lines, row_index, rows_to_insert, total_rows_in_csv,
                    skipped_count, delete_returned, up_exit_code >>
    /\ UNCHANGED << ovVars, scVars, exVars, envVars, runVars, fpVars, urVars >>

\* sys.exit(0) after both functions returned True, sys.exit(1) otherwise.
UploadExit ==
    /\ up_pc = "exit"
    /\ up_exit_code' = IF delete_returned = "True" /\ insert_returned = "True" THEN 0 ELSE 1
    /\ up_pc' = "done"
    /\ UNCHANGED << csv_file, csv_lines, row_index, rows_to_insert, total_rows_in_csv,
                    inserted_count, skipped_count, insert_calls, delete_returned,
                    insert_returned >>
    /\ UNCHANGED << ovVars, scVars, exVars, envVars, runVars, fpVars, urVars >>

UpNext == DeleteExistingTimings \/ OpenCsv \/ ProcessRow \/ FinishInsert \/ UploadExit

SpecUpload == UpInit /\ [][UpNext]_vars

\* ------------------------------------------------------------ scraping
\* scrape_timetable.py: TimetableScraper.fetch_page and its two calls in
\* scrape. An attempt is the GET with raise_for_status: it gives a response
\* or raises. The sleeps (time.sleep, and the 30 s timeout of the GET) end.

MaxRetries == 3

OtherVarsOfFetch == << ovVars, scVars, exVars, envVars, runVars, upVars, urVars >>

FpInit ==
    /\ fp_pc = "loop"
    /\ max_retries \in 0..MaxRetries
    /\ fp_call = 1 /\ attempt = 0
    /\ get_log = <<>> /\ replaced_after = <<>> /\ fp_outcome = "none"
    /\ fp_exception = 0 /\ scrape_returned = "none" /\ fp_exit_code = -1
    /\ OvIdle /\ ScIdle /\ ExIdle /\ EnvIdle /\ RunStart("idle")
    /\ UpIdle /\ UrIdle

\* if attempt == max_retries - 1: raise
is_last_attempt_late(a, retries) == a = retries
is_last_attempt(a, retries) == a = retries - 1

\* One turn of for attempt in range(max_retries) up to the return or the
\* except clause: the GET succeeds and fetch_page returns the response, or
\* it fails and the except clause either re-raises (last attempt) or goes on
\* to replace the session.
FetchAttempt ==
    /\ fp_pc = "loop" /\ attempt < max_retries
    /\ \E ok \in BOOLEAN :
           /\ get_log' = Append(get_log, [call |-> fp_call, attempt |-> attempt, ok |-> ok])
           /\ IF ok
              THEN /\ fp_outcome' = "response" /\ fp_pc' = "fetched"
                   /\ UNCHANGED fp_exception
              ELSE IF is_last_attempt(attempt, max_retries)
              THEN /\ fp_outcome' = "raised" /\ fp_exception' = attempt
                   /\ fp_pc' = "fetched"
              ELSE /\ fp_pc' = "rotate"
                   /\ UNCHANGED << fp_outcome, fp_exception >>
    /\ UNCHANGED << max_retries, fp_call, attempt, replaced_after, scrape_returned,
                    fp_exit_code >>
    /\ UNCHANGED OtherVarsOfFetch

\* The rest of the except clause: a new User-Agent, self.scraper =
\* self.create_scraper(), the sleep, and the next turn of the loop.
RotateSession ==
    /\ fp_pc = "rotate"
    /\ replaced_after' = Append(replaced_after, << fp_call, attempt >>)
    /\ attempt' = attempt + 1
    /\ fp_pc' = "loop"
    /\ UNCHANGED << max_retries, fp_call, get_log, fp_outcome, fp_exception,
                    scrape_returned, fp_exit_code >>
    /\ UNCHANGED OtherVarsOfFetch

\* The loop ends without a return or a raise: the function returns None.
LoopExhausted ==
    /\ fp_pc = "loop" /\ attempt >= max_retries
    /\ fp_outcome' = "None"
    /\ fp_pc' = "fetched"
    /\ UNCHANGED << max_retries, fp_call, attempt, get_log, replaced_after,
                    fp_exception, scrape_returned, fp_exit_code >>
    /\ UNCHANGED OtherVarsOfFetch

\* scrape after a fetch_page call: an exception (the one fetch_page raised,
\* the AttributeError of None.text, the ValueError of a missing semester id
\* or of an empty timetable) makes it return False; after the first call
\* with a semester id it calls fetch_page again; after the second call with
\* timetable data it writes the CSV and returns True.
ScrapeStep ==
    /\ fp_pc = "fetched"
    /\ IF fp_outcome # "response"
       THEN /\ scrape_returned' = "False" /\ fp_pc' = "returned"
            /\ UNCHANGED << fp_call, attempt, fp_outcome, fp_exception >>
       ELSE \E found \in BOOLEAN :
                IF ~found
                THEN /\ scrape_returned' = "False" /\ fp_pc' = "returned"
                     /\ UNCHANGED << fp_call, attempt, fp_outcome, fp_exception >>
                ELSE IF fp_call = 1
                THEN /\ fp_call' = 2 /\ attempt' = 0 /\ fp_outcome' = "none"
                     /\ fp_exception' = 0 /\ fp_pc' = "loop"
                     /\ UNCHANGED scrape_returned
                ELSE /\ scrape_returned' = "True" /\ fp_pc' = "returned"
                     /\ UNCHANGED << fp_call, attempt, fp_outcome, fp_exception >>
    /\ UNCHANGED << max_retries, get_log, replaced_after, fp_exit_code >>
    /\ UNCHANGED OtherVarsOfFetch

\* main: sys.exit(0 if success else 1)
ScrapeExit ==
    /\ fp_pc = "returned"
    /\ fp_exit_code' = IF scrape_returned = "True" THEN 0 ELSE 1
    /\ fp_pc' = "exited"
    /\ UNCHANGED << max_retries, fp_call, attempt, get_log, replaced_after, fp_outcome,
                    fp_exception, scrape_returned >>
    /\ UNCHANGED OtherVarsOfFetch

FpNext == FetchAttempt \/ RotateSession \/ LoopExhausted \/ ScrapeStep \/ ScrapeExit

\* Every step of the script is taken when it can be: the process runs, the
\* GET has a timeout and the sleeps are finite.
SpecFetch == FpInit /\ [][FpNext]_vars /\ WF_vars(FpNext)

\* ------------------------------------------------------------ rooms update
\* update_rooms.py: the main block and the three functions it calls.

MaxUrRows == 2

PaddedR510 == << " ", "5", ".", "1", "0", " " >>

UrRoomPool == { R513, R510, PaddedR510 }

UrRoomSeqs == UNION { [1..n -> UrRoomPool] : n \in 0..MaxUrRows }

\* classes.csv as find_new_rooms_from_csv meets it: readable; not a file;
\* without a Room column; or with a row it cannot process after the readable
\* ones (csv.Error, or a short row whose Room is None).
UrCsvKinds == { "ok", "missing", "no_room_column", "bad_row" }

OtherVarsOfUpdate == << ovVars, scVars, exVars, envVars, runVars, upVars, fpVars >>

UrInit ==
    /\ ur_pc = "fetch"
    /\ ur_csv \in UrCsvKinds
    /\ ur_csv_rooms \in UrRoomSeqs
    /\ ur_csv \in { "missing", "no_room_column" } => ur_csv_rooms = <<>>
    /\ existing_names \in SUBSET { R513, R510 }
    /\ csv_error = "none" /\ new_room_data = UnboundRooms /\ ur_insert_calls = <<>>
    /\ ur_final_success = "False" /\ ur_exit_code = -1
    /\ OvIdle /\ ScIdle /\ ExIdle /\ EnvIdle /\ RunStart("idle")
    /\ UpIdle /\ FpIdle

\* fetch_existing_room_names returns the names of the table, or raises
\* RuntimeError, which the main block catches: final_success = False.
FetchExistingRoomNames ==
    /\ ur_pc = "fetch"
    /\ \E ok \in BOOLEAN :
           /\ ur_pc' = IF ok THEN "csv" ELSE "finally"
           /\ ur_final_success' = "False"
    /\ UNCHANGED << ur_csv, ur_csv_rooms, existing_names, csv_error, new_room_data,
                    ur_insert_calls, ur_exit_code >>
    /\ UNCHANGED OtherVarsOfUpdate

\* The exception find_new_rooms_from_csv catches for a classes.csv.
CsvException(kind) ==
    CASE kind = "missing" -> "FileNotFoundError"
      [] kind = "no_room_column" -> "ValueError"
      [] kind = "bad_row" -> "Exception"
      [] OTHER -> "none"

\* new_rooms_to_insert for the stripped Room values that are not in
\* existing_names, as a list whose order is that of a set.
NewRoomsToInsert(room_values, existing) ==
    LET unique_csv_rooms == { Strip(room_values[i]) : i \in 1..Len(room_values) }
        new_names == unique_csv_rooms \ existing
    IN  { [Name |-> n, ShortCode |-> Strip(SplitDashFirst(n)), Capacity |-> "None"]
          : n \in new_names }

\* find_new_rooms_from_csv: the list of new rooms, or, after an exception,
\* the empty list of its last line.
FindNewRoomsFromCsv ==
    /\ ur_pc = "csv"
    /\ csv_error' = CsvException(ur_csv)
    /\ new_room_data' =
           IF ur_csv = "ok"
           THEN [kind |-> "list", rooms |-> NewRoomsToInsert(ur_csv_rooms, existing_names)]
           ELSE [kind |-> "list", rooms |-> {}]
    /\ ur_pc' = "check"
    /\ UNCHANGED << ur_csv, ur_csv_rooms, existing_names, ur_insert_calls,
                    ur_final_success, ur_exit_code >>
    /\ UNCHANGED OtherVarsOfUpdate

\* if new_room_data is not None: final_success = insert_new_rooms(...), which
\* returns True without an insert for an empty list, and otherwise inserts
\* and returns whether the insert succeeded; else final_success = False.
InsertNewRooms ==
    /\ ur_pc = "check"
    /\ IF new_room_data.kind # "None"
       THEN IF new_room_data.rooms = {}
            THEN /\ ur_final_success' = "True"
                 /\ UNCHANGED ur_insert_calls
            ELSE \E ok \in BOOLEAN :
                     /\ ur_insert_calls' = Append(ur_insert_calls, new_room_data.rooms)
                     /\ ur_final_success' = IF ok THEN "True" ELSE "False"
       ELSE /\ ur_final_success' = "False"
            /\ UNCHANGED ur_insert_calls
    /\ ur_pc' = "finally"
    /\ UNCHANGED << ur_csv, ur_csv_rooms, existing_names, csv_error, new_room_data,
                    ur_exit_code >>
    /\ UNCHANGED OtherVarsOfUpdate

\* The finally clause, then sys.exit(0) if final_success else sys.exit(1).
UpdateRoomsExit ==
    /\ ur_pc = "finally"
    /\ ur_exit_code' = IF ur_final_success = "True" THEN 0 ELSE 1
    /\ ur_pc' = "done"
    /\ UNCHANGED << ur_csv, ur_csv_rooms, existing_names, csv_error, new_room_data,
                    ur_insert_calls, ur_final_success >>
    /\ UNCHANGED OtherVarsOfUpdate

UrNext == FetchExistingRoomNames \/ FindNewRoomsFromCsv \/ InsertNewRooms \/ UpdateRoomsExit

SpecUpdateRooms == UrInit /\ [][UrNext]_vars

\* ------------------------------------------------------------ claims

\* Minutes since midnight of a zero-padded HH:MM string.
Minutes(t) == (Digit[t[1]] * 10 + Digit[t[2]]) * 60 + Digit[t[4]] * 10 + Digit[t[5]]

\* Some busy interval overlaps the slot as times of day: it starts before the
\* slot ends and ends after the slot starts.
SomeOverlap ==
    \E i \in 1..Len(room_timings) :
        /\ Minutes(room_timings[i][1]) < Minutes(slot_end)
        /\ Minutes(room_timings[i][2]) > Minutes(slot_start)

\* C1: is_slot_available returns False exactly when some busy interval of the
\* list starts before the slot's end and ends after the slot's start; an
\* interval that only touches the slot (ends at its start, or starts at its
\* end) does not make it unavailable, and an interval equal to the slot does.
C1_OverlapIff ==
    ov_pc = "returned" =>
        /\ (available = FALSE) <=> SomeOverlap
        /\ (/\ Len(room_timings) = 1
            /\ \/ room_timings[1][2] = slot_start
               \/ room_timings[1][1] = slot_end
            /\ Minutes(room_timings[1][1]) < Minutes(room_timings[1][2])
            /\ Minutes(slot_start) < Minutes(slot_end)) => available = TRUE
        /\ (/\ \E i \in 1..Len(room_timings) : room_timings[i] = << slot_start, slot_end >>
            /\ Minutes(slot_start) < Minutes(slot_end)) => available = FALSE

\* A slot was tested against a busy interval that ends exactly where the slot
\* starts, after one that does not reach the slot, and was found free.
C1_Witness ==
    /\ ov_pc = "returned"
    /\ slot_start = TIME_SLOTS[2]
    /\ slot_end = TIME_SLOTS[3]
    /\ room_timings = << << TIME_SLOTS[3], TIME_SLOTS[4] >>, << TIME_SLOTS[1], TIME_SLOTS[2] >> >>
    /\ available = TRUE

\* ---- expand_rooms_set (SpecExpand)

\* The short codes of a set of names.
ShortCodesOf(S) == { get_room_short_code(r) : r \in S }

\* The names shortcode_to_rooms knows.
KnownRooms == UNION { Range(shortcode_to_rooms[k]) : k \in DOMAIN shortcode_to_rooms }

\* The known names with a given short code.
KnownWith(code) == { r \in KnownRooms : get_room_short_code(r) = code }

Rules == Range(COMBINED_ROOM_MAP)

C7_OnlyAdds ==
    [][ex_pc = "call" => (base_rooms' = base_rooms /\ base_rooms \subseteq expanded')]_vars

\* A call that added a room to a non-empty set.
C7_Witness ==
    /\ ex_pc = "again"
    /\ base_rooms = { R513 }
    /\ expanded = { R513, R5134 }

\* C8: for every rule, a combined room in the input brings in all known names
\* of both individuals, an individual in the input brings in all known names
\* of the combined room, and no room outside the input is added for any other
\* reason.
C8_ExpandRule ==
    ex_pc = "again" =>
        /\ \A rule \in Rules :
            /\ rule.combined \in ShortCodesOf(base_rooms) =>
                   KnownWith(rule.ind_a) \cup KnownWith(rule.ind_b) \subseteq expanded
            /\ (rule.ind_a \in ShortCodesOf(base_rooms) \/ rule.ind_b \in ShortCodesOf(base_rooms)) =>
                   KnownWith(rule.combined) \subseteq expanded
        /\ \A r \in expanded \ base_rooms :
            /\ r \in KnownRooms
            /\ \E rule \in Rules :
                \/ /\ rule.combined \in ShortCodesOf(base_rooms)
                   /\ get_room_short_code(r) \in { rule.ind_a, rule.ind_b }
                \/ /\ rule.ind_a \in ShortCodesOf(base_rooms) \/ rule.ind_b \in ShortCodesOf(base_rooms)
                   /\ get_room_short_code(r) = rule.combined

\* The combined room alone was given, and both names of one individual and
\* the other individual came back with it; the room of the other rule did not.
C8_Witness ==
    /\ ex_pc = "again"
    /\ base_rooms = { R5134 }
    /\ expanded = { R5134, R513, R513b, R514 }
    /\ R4467 \in KnownRooms

\* ---- the schedule generator (Spec)

\* The intervals of the complete records of one day and one room name.
RawOfRoom(day, room) ==
    { << rows[j].StartTime, rows[j].EndTime >> :
        j \in { k \in 1..Len(rows) :
                  RowComplete(rows[k]) /\ rows[k].Day = day /\ rows[k].Room = room } }

\* The intervals of the complete records of one day and one short code.
RawOfCode(day, code) ==
    { << rows[j].StartTime, rows[j].EndTime >> :
        j \in { k \in 1..Len(rows) :
                  /\ RowComplete(rows[k])
                  /\ rows[k].Day = day
                  /\ get_room_short_code(rows[k].Room) = code } }

\* The effective busy set of a room on a day the day loop has processed.
EffectiveSet(day, room) == Range(Get(effective_timings[day], room, <<>>))

\* generate_schedule_data_from_csv has just returned: every day is processed.
Returned == pc = "save"

Days == Range(DAYS_OF_WEEK)

\* The row of a room in the day entry of a processed day.
RowsOf(d, room) == { i \in 1..Len(schedule[d].rooms) : schedule[d].rooms[i].room = room }

\* C2: union rule. On every day and for every rule, a combined room's
\* effective busy set is the raw intervals of the combined room united with
\* the raw intervals of both individuals, whether or not the combined room
\* has a booking of its own that day.
C2_UnionRule ==
    Returned => \A day \in Days : \A rule \in Rules :
        \A room \in { r \in rooms_set : get_room_short_code(r) = rule.combined } :
            EffectiveSet(day, room) =
                RawOfCode(day, rule.combined) \cup RawOfCode(day, rule.ind_a)
                    \cup RawOfCode(day, rule.ind_b)

\* On Tuesday the combined room has no booking and an individual has one: the
\* combined room is busy for that interval.
C2_Witness ==
    /\ Returned
    /\ RawOfRoom("Tuesday", R5134) = {}
    /\ EffectiveSet("Tuesday", R5134) = { << T0900, T0930 >> }
    /\ \E i \in RowsOf(2, R5134) :
           schedule[2].rooms[i].availability[2] = 0 /\ schedule[2].rooms[i].availability[3] = 1

\* C3: inheritance rule. On every day and for every rule, an individual's
\* effective busy set is its own raw intervals united with the combined
\* room's raw intervals and nothing else: what is booked only on the other
\* individual is not in it.
C3_InheritanceRule ==
    Returned => \A day \in Days : \A rule \in Rules :
        \A room \in { r \in rooms_set : get_room_short_code(r) \in { rule.ind_a, rule.ind_b } } :
            EffectiveSet(day, room) = RawOfRoom(day, room) \cup RawOfCode(day, rule.combined)

\* The combined room and both individuals are booked on Monday: 5.14 has its
\* own interval and the combined room's, not the one booked on 5.13, which the
\* combined room has.
C3_Witness ==
    /\ Returned
    /\ << T0930, T1030 >> \in RawOfRoom("Monday", R513)
    /\ << T0930, T1030 >> \in EffectiveSet("Monday", R5134)
    /\ EffectiveSet("Monday", R514) = { << T1400, T1430 >>, << T0900, T1000 >> }
    /\ RawOfRoom("Monday", R514) = { << T1400, T1430 >> }

\* Slot i of the grid overlaps an interval of the set, as times of day.
SlotBusy(i, intervals) ==
    \E t \in intervals :
        /\ Minutes(t[1]) < Minutes(TIME_SLOTS[i + 1])
        /\ Minutes(t[2]) > Minutes(TIME_SLOTS[i])

\* C4: the returned schedule has seven day entries in the order of
\* DAYS_OF_WEEK; every day entry lists every room of the final room set
\* exactly once; every row has len(TIME_SLOTS) - 1 values, each 0 or 1, and
\* value i is 1 exactly when the slot between boundary i and boundary i+1 is
\* free of the room's effective intervals of that day.
C4_ScheduleShape ==
    Returned =>
        /\ Len(schedule) = 7
        /\ \A d \in 1..Len(schedule) :
            /\ schedule[d].day = DAYS_OF_WEEK[d]
            /\ Len(schedule[d].rooms) = Cardinality(rooms_set)
            /\ \A room \in rooms_set : Cardinality(RowsOf(d, room)) = 1
            /\ \A r \in 1..Len(schedule[d].rooms) :
                LET row == schedule[d].rooms[r]
                IN  /\ Len(row.availability) = Len(TIME_SLOTS) - 1
                    /\ \A i \in 1..Len(row.availability) :
                        /\ row.availability[i] \in { 0, 1 }
                        /\ (row.availability[i] = 0) <=>
                               SlotBusy(i, EffectiveSet(DAYS_OF_WEEK[d], row.room))

\* A returned schedule with three rooms, one of them booked on Monday up to
\* the last but one boundary only in its first slots: its last slot is free.
C4_Witness ==
    /\ Returned
    /\ Cardinality(rooms_set) = 3
    /\ \E i \in RowsOf(1, R510) :
        /\ schedule[1].rooms[i].availability[2] = 0
        /\ schedule[1].rooms[i].availability[Len(TIME_SLOTS) - 1] = 1
    /\ \E i \in RowsOf(7, R510) : schedule[7].rooms[i].availability[2] = 1

\* The names of the catalog's physical rooms.
CatalogRooms == { r.Name : r \in { x \in RoomsTable : x.Name # ROnline } }

AllOnes == [i \in 1..(Len(TIME_SLOTS) - 1) |-> 1]

\* C5: a room of the catalog without any booking is in every day entry of the
\* returned schedule, with a row of ones.
C5_CatalogRoomListed ==
    Returned =>
        \A room \in CatalogRooms :
            (\A day \in Days : RawOfRoom(day, room) = {}) =>
                \A d \in 1..Len(schedule) :
                    \E i \in RowsOf(d, room) : schedule[d].rooms[i].availability = AllOnes

\* ---- the save (SpecPublish)

\* The two schedules list the same rooms in the same order on every day.
SameShape(a, b) ==
    /\ Len(a) = Len(b)
    /\ \A d \in 1..Len(a) :
        /\ Len(a[d].rooms) = Len(b[d].rooms)
        /\ \A r \in 1..Len(a[d].rooms) : a[d].rooms[r].room = b[d].rooms[r].room

\* The number of (day, room, slot) bits in which two schedules of the same
\* shape differ.
ChangedSlots(a, b) ==
    Cardinality({ t \in (1..Len(a)) \X (1..Len(a[1].rooms)) \X (1..(Len(TIME_SLOTS) - 1)) :
                    a[t[1]].rooms[t[2]].availability[t[3]]
                        # b[t[1]].rooms[t[2]].availability[t[3]] })

\* numSlots x numDays x numRooms
TotalSlots(a) == (Len(TIME_SLOTS) - 1) * Len(a) * Len(a[1].rooms)

\* changedSlots >= max(10, 10% of the total), in tenths.
ReachesThreshold(a, b) ==
    LET total == TotalSlots(a)
    IN  10 * ChangedSlots(a, b) >= (IF total > 100 THEN total ELSE 100)

\* The save has acted on a file that held a schedule other than the
\* candidate, with the same rooms.
SavedOverDifferent ==
    /\ pc \in { "exit", "done" }
    /\ previous_file.kind = "json"
    /\ previous_file.data # schedule
    /\ SameShape(previous_file.data, schedule)
    /\ Len(schedule[1].rooms) > 0

\* C9: change gating. When a previous snapshot exists and differs from the
\* candidate, the candidate is written over it exactly when the number of
\* differing bits reaches max(10, 10% of all bits); below the threshold the
\* persisted schedule stays as it was.
C9_ThresholdGate ==
    SavedOverDifferent =>
        ((output_file = JsonFile(schedule)) <=> ReachesThreshold(previous_file.data, schedule))

\* C10: when the run finds no scheduleData.json, or one that does not parse,
\* and the file operations of the save succeed, the candidate is written and
\* the run ends as a success (exit code 0).
C10_PublishWithoutPrevious ==
    (/\ pc \in { "exit", "done" }
     /\ previous_file.kind \in { "absent", "corrupt" }
     /\ save_io = "ok") =>
        /\ output_file = JsonFile(schedule)
        /\ final_success
        /\ pc = "done" => exit_code = 0

\* A run that found a file that does not parse, wrote a schedule with a
\* booked room over it and exited with code 0.
C10_Witness ==
    /\ pc = "done"
    /\ previous_file = CorruptFile
    /\ output_file = JsonFile(schedule)
    /\ Len(schedule) = 7 /\ R513 \in rooms_set
    /\ exit_code = 0

\* C11: when the candidate schedule equals the schedule the persisted file
\* holds, nothing is published: the save performs no file operation, and the
\* file is left as the run found it.
C11_EqualNotRewritten ==
    (/\ pc \in { "exit", "done" }
     /\ previous_file.kind = "json"
     /\ previous_file.data = schedule) =>
        /\ save_io = "none"
        /\ output_file = previous_file

\* ---- iteration order (SpecOrder)

\* C12: the schedule a run returns is the schedule of a run over the same
\* bookings under any iteration order of the sets: the same days, the same
\* rooms in the same order, the same bits. Every run starts from empty locals.
C12_Deterministic ==
    Returned =>
        \A seed \in HashSeeds : schedule = generate_schedule_data_from_csv(rows, seed)

\* A run that appended two intervals of the individuals to the combined room
\* in the order its sets gave them, the reverse of the other order.
C12_Witness ==
    /\ Returned
    /\ hash_seed = 1
    /\ Get(effective_timings["Monday"], R5134, <<>>)
           = << << T1400, T1430 >>, << T0930, T1030 >> >>
    /\ Get(EffectiveTimings(Get(timings_by_day_room, "Monday", EmptyDict),
                            ShortcodeToRooms(rooms_set, 0), 0), R5134, <<>>)
           = << << T0930, T1030 >>, << T1400, T1430 >> >>

\* ---- short codes (SpecShortCode)

\* The position of the first "-" of a name, one past its end when it has none.
FirstDash(s) ==
    IF \E i \in 1..Len(s) : s[i] = "-"
    THEN CHOOSE i \in 1..Len(s) : s[i] = "-" /\ \A j \in 1..(i - 1) : s[j] # "-"
    ELSE Len(s) + 1

\* A text from its first to its last character that is not a blank.
Trimmed(s) ==
    LET keep == { i \in 1..Len(s) : s[i] # " " }
    IN  IF keep = {} THEN <<>>
        ELSE SubSeq(s, CHOOSE i \in keep : \A j \in keep : i <= j,
                       CHOOSE i \in keep : \A j \in keep : j <= i)

\* C13: the short code of a room full name is the text before its first "-",
\* trimmed, the whole trimmed name when it has no "-"; generate_schedule.py,
\* update_rooms.py and scrape_timetable.py all derive this short code.
C13_SameShortCode ==
    sc_pc = "derived" =>
        /\ short_generate = Trimmed(SubSeq(full_name, 1, FirstDash(full_name) - 1))
        /\ short_update = short_generate
        /\ short_scrape = short_generate

\* The three derivations on a name with a blank on either side of the code
\* and a separator, and on a name of blanks around a code without one.
C13_Witness ==
    /\ sc_pc = "derived"
    /\ full_name \in { << " ", "5", " ", "-" >>, << " ", "5", "A", " " >> }
    /\ short_generate \in { << "5" >>, << "5", "A" >> }
    /\ short_update = short_generate
    /\ short_scrape = short_generate

\* ---- more bookings (SpecOverlap, SpecOrder)

\* C14: availability is anti-monotonic in the busy list. A slot found
\* unavailable against a list is unavailable against the list with any one
\* interval more: the result never goes from False to True.
C14_AntiMonotonic ==
    ov_pc = "returned_again" => (available = FALSE => available_longer = FALSE)

\* A slot that one interval of the list makes unavailable stayed unavailable
\* when an interval that does not reach it was put in front of that one.
C14_Witness ==
    /\ ov_pc = "returned_again"
    /\ available = FALSE
    /\ Len(longer_timings) = 2
    /\ room_timings = << longer_timings[2] >>
    /\ is_slot_available(slot_start, slot_end, << longer_timings[1] >>)
    /\ available_longer = FALSE

\* The consequence for the schedule: the schedule of a run against the
\* schedule of the same bookings without the last one. A room listed in both
\* has no slot that was 0 and is 1.
AddedBookingOnlyClears ==
    (Returned /\ rows # <<>>) =>
        LET before == generate_schedule_data_from_csv(SubSeq(rows, 1, Len(rows) - 1), hash_seed)
        IN  \A d \in 1..Len(schedule) :
                \A i \in 1..Len(before[d].rooms), j \in 1..Len(schedule[d].rooms) :
                    before[d].rooms[i].room = schedule[d].rooms[j].room =>
                        \A n \in 1..(Len(TIME_SLOTS) - 1) :
                            before[d].rooms[i].availability[n] = 0
                                => schedule[d].rooms[j].availability[n] = 0

\* ---- records of any quality (SpecData)

\* Minutes since midnight of a text that is a time of day.
ParsedMinutes(t) == strptime_HM(t).hour * 60 + strptime_HM(t).minute

\* Some interval of the list overlaps slot n as times of day.
BusyInMinutes(n, timings) ==
    \E k \in 1..Len(timings) :
        /\ ParsedMinutes(timings[k][1]) < ParsedMinutes(TIME_SLOTS[n + 1])
        /\ ParsedMinutes(timings[k][2]) > ParsedMinutes(TIME_SLOTS[n])

\* Every time of the list is a time of day.
AllTimesOfDay(timings) ==
    \A k \in 1..Len(timings) : strptime_HM(timings[k][1]).ok /\ strptime_HM(timings[k][2]).ok

\* C15: times are compared as minutes since midnight, so the bits do not
\* depend on how a time is written. On every day, the row of a room whose
\* busy intervals are all times of day has a 0 exactly in the slots that some
\* interval overlaps in minutes.
C15_ComparedAsMinutes ==
    Returned =>
        \A d \in 1..Len(schedule) : \A i \in 1..Len(schedule[d].rooms) :
            LET timings == Get(effective_timings[DAYS_OF_WEEK[d]], schedule[d].rooms[i].room, <<>>)
            IN  AllTimesOfDay(timings) =>
                    \A n \in 1..(Len(TIME_SLOTS) - 1) :
                        (schedule[d].rooms[i].availability[n] = 0) <=> BusyInMinutes(n, timings)

\* Both times of the interval are times of day.
TimesOfDay(interval) == strptime_HM(interval[1]).ok /\ strptime_HM(interval[2]).ok

\* C16: a booking with a start or an end that is no time of day is discarded.
\* On every day the row of every room is the row its intervals with two times
\* of day give: a malformed booking makes no slot unavailable, and the other
\* bookings of the room mark the slots they overlap.
C16_MalformedDiscarded ==
    Returned =>
        \A d \in 1..Len(schedule) : \A i \in 1..Len(schedule[d].rooms) :
            LET timings == Get(effective_timings[DAYS_OF_WEEK[d]], schedule[d].rooms[i].room, <<>>)
            IN  schedule[d].rooms[i].availability = Availability(SelectSeq(timings, TimesOfDay))

\* C17: a record without a day, a room, a start or an end is dropped on its
\* own. The returned schedule is the schedule of the other records alone: the
\* record adds no interval and no room, and the others are all applied.
C17_IncompleteDropped ==
    Returned =>
        schedule = generate_schedule_data_from_csv(SelectSeq(rows, RowComplete), hash_seed)

\* A run over a record without one of its fields and a well-formed booking
\* returned: the room only the first names is not listed, the booking of the
\* second is in its row.
C17_Witness ==
    /\ Returned
    /\ Len(rows) = 2
    /\ ~RowComplete(rows[1]) /\ rows[1].Room = R511
    /\ rows[2] = Booking("Monday", R510, T1400, T1430)
    /\ rooms_set = { R510 }
    /\ schedule[1].rooms[1].availability[12] = 0
    /\ schedule[1].rooms[1].availability[11] = 1

RConsultation == << "C", "o", "n", "s", "u", "l", "t", "a", "t", "i", "o", "n" >>

\* The names that stand for no physical room.
SentinelRooms == { ROnline, RConsultation }

\* C18: Online and Consultation are never the room of a row of the returned
\* schedule, whether the bookings came from the CSV or from Supabase.
C18_NoSentinelRow ==
    Returned =>
        \A d \in 1..Len(schedule) : \A i \in 1..Len(schedule[d].rooms) :
            schedule[d].rooms[i].room \notin SentinelRooms

\* ---- effective timings (SpecOrder)

\* C19: on every day the effective list of every room holds no (start, end)
\* pair twice, also when the records repeat an interval or an interval reaches
\* the room from its own bookings and through a rule.
C19_NoDuplicateInterval ==
    Returned =>
        \A day \in Days : \A room \in DOMAIN effective_timings[day] :
            LET timings == effective_timings[day][room]
            IN  \A i, j \in 1..Len(timings) : timings[i] = timings[j] => i = j

\* A run over a record given twice for an individual room and the same
\* interval booked for its combined room: each of the two rooms has the
\* interval once.
C19_Witness ==
    /\ Returned
    /\ rows = << Booking("Tuesday", R514, T1400, T1430),
                 Booking("Tuesday", R514, T1400, T1430),
                 Booking("Tuesday", R5134, T1400, T1430) >>
    /\ effective_timings["Tuesday"][R514] = << << T1400, T1430 >> >>
    /\ effective_timings["Tuesday"][R5134] = << << T1400, T1430 >> >>

\* The short codes COMBINED_ROOM_MAP names, as keys or as constituents.
RuleCodes == UNION { { r.combined, r.ind_a, r.ind_b } : r \in Rules }

\* C20: on every day, a room whose short code is in no rule has its own raw
\* intervals of the day as its effective busy set, and the row they give:
\* the bookings of other rooms do not reach it.
C20_UnruledRoomOwnIntervals ==
    Returned =>
        \A d \in 1..Len(schedule) : \A room \in rooms_set :
            get_room_short_code(room) \notin RuleCodes =>
                /\ EffectiveSet(DAYS_OF_WEEK[d], room) = RawOfRoom(DAYS_OF_WEEK[d], room)
                /\ \A i \in RowsOf(d, room) :
                       schedule[d].rooms[i].availability
                           = Availability(SortedTuples(RawOfRoom(DAYS_OF_WEEK[d], room)))

\* A run over a booking of a room no rule names and, on the same day,
\* bookings of both individuals of a rule: the first room has its own
\* interval only.
C20_Witness ==
    /\ Returned
    /\ { rows[k] : k \in 1..Len(rows) }
           = { Booking("Monday", R510, T0900, T0930),
               Booking("Monday", R513, T0930, T1030),
               Booking("Monday", R514, T1400, T1430) }
    /\ EffectiveSet("Monday", R510) = { << T0900, T0930 >> }
    /\ \E i \in RowsOf(1, R510) :
           /\ schedule[1].rooms[i].availability[2] = 0
           /\ schedule[1].rooms[i].availability[3] = 1

\* C21: in every day entry the rooms are in ascending lexicographic order of
\* their full names, and all seven days list the same sequence of rooms.
C21_RoomsAscending ==
    Returned =>
        \A d \in 1..Len(schedule) :
            /\ \A i \in 1..(Len(schedule[d].rooms) - 1) :
                   StrLT(schedule[d].rooms[i].room, schedule[d].rooms[i + 1].room)
            /\ Len(schedule[d].rooms) = Len(schedule[1].rooms)
            /\ \A i \in 1..Len(schedule[d].rooms) :
                   schedule[d].rooms[i].room = schedule[1].rooms[i].room

\* A run over three rooms, the first and the last of them in name order
\* booked on Monday only and the middle one on Tuesday only: Monday and
\* Tuesday list them alike.
C21_Witness ==
    /\ Returned
    /\ rooms_set = { R510, R514, R5134 }
    /\ RawOfRoom("Tuesday", R510) = {} /\ RawOfRoom("Tuesday", R514) = {}
    /\ RawOfRoom("Monday", R5134) = {}
    /\ [i \in 1..3 |-> schedule[1].rooms[i].room] = << R510, R5134, R514 >>
    /\ [i \in 1..3 |-> schedule[2].rooms[i].room] = << R510, R5134, R514 >>

\* ---- the configuration (SpecExpand, SpecConfig)

\* C22: the combined-room table that expand_rooms_set reads shares and chains
\* nothing. The two constituents of a rule differ, no short code is a
\* constituent of two rules, and no combined code is a constituent of any
\* rule.
C22_NoSharingNoChaining ==
    ex_pc \in { "call", "again", "returned" } =>
        \A m, n \in 1..Len(COMBINED_ROOM_MAP) :
            LET rule  == COMBINED_ROOM_MAP[m]
                other == COMBINED_ROOM_MAP[n]
            IN  /\ rule.ind_a # rule.ind_b
                /\ m # n => { rule.ind_a, rule.ind_b } \cap { other.ind_a, other.ind_b } = {}
                /\ rule.combined \notin { other.ind_a, other.ind_b }

\* The table at work: the call on the combined room 5.134 alone returned it
\* with both names of 5.13 and with 5.14, and with no room of another rule.
C22_Witness ==
    /\ ex_pc = "returned"
    /\ base_rooms = { R5134 }
    /\ KnownRooms = ExpandRooms
    /\ expanded = { R5134, R513, R513b, R514 }

\* The boundary list is not strictly increasing.
NotIncreasing(slots) == \E n \in 1..(Len(slots) - 1) : ~StrLT(slots[n], slots[n + 1])

\* Some short code is a constituent of two rules of the table.
SharesConstituent(rules) ==
    \E m, n \in 1..Len(rules) :
        m # n /\ { rules[m].ind_a, rules[m].ind_b } \cap { rules[n].ind_a, rules[n].ind_b } # {}

\* C23: a configuration error is fatal. With a boundary list that is not
\* strictly increasing, or a table with a shared constituent, the run raises
\* before it computes anything: no schedule is returned, scheduleData.json is
\* left as it was, and the exit code is not 0.
C23_ConfigErrorFatal ==
    (/\ pc \in { "save", "exit", "done" }
     /\ NotIncreasing(ConfigSlots(config)) \/ SharesConstituent(ConfigRules(config))) =>
        /\ schedule = <<>>
        /\ output_file = previous_file
        /\ pc = "done" => exit_code # 0

\* ---- sequences of runs (SpecRuns)

\* C24: in a sequence of runs every candidate is compared with the snapshot
\* the last publishing run left. A run after the first whose candidate differs
\* from that snapshot in fewer bits than the threshold does not write it: the
\* persisted schedule is still the one the run found.
C24_SubThresholdNeverWritten ==
    (/\ run_number > 1
     /\ SavedOverDifferent
     /\ ~ReachesThreshold(previous_file.data, schedule)) =>
        output_file = previous_file

\* ---- the room set of a run (SpecOrder)

\* The room names of the complete booking records.
BookedRooms == { rows[k].Room : k \in { j \in 1..Len(rows) : RowComplete(rows[j]) } }

\* C25: as the run calls it, expand_rooms_set returns the set it was given.
\* From the expansion on, rooms_set is the set of the room names of the
\* complete booking records, and every day entry of the returned schedule
\* lists exactly these rooms: a combined room or an individual without a
\* booking of its own has no row, whatever is booked for its counterpart.
C25_ExpansionAddsNothing ==
    /\ pc \in { "days", "save", "exit", "done" } => rooms_set = BookedRooms
    /\ Returned =>
           \A d \in 1..Len(schedule) :
               { schedule[d].rooms[i].room : i \in 1..Len(schedule[d].rooms) } = BookedRooms

\* A run over bookings of both individuals of 5.134 returned a schedule with
\* the rows of the two individuals and none for a combined room.
C25_Witness ==
    /\ Returned
    /\ BookedRooms = { R513, R514 }
    /\ rooms_set = { R513, R514 }
    /\ Len(schedule[1].rooms) = 2
    /\ DOMAIN shortcode_to_rooms = { get_room_short_code(R513), get_room_short_code(R514) }

\* ---- the legacy generator (SpecOverlap)

\* slot_start and slot_end are consecutive boundaries of TIME_SLOTS.
IsTimeSlot == \E n \in 1..(Len(TIME_SLOTS) - 1) : slot_start = TIME_SLOTS[n] /\ slot_end = TIME_SLOTS[n + 1]

\* C26: for bookings that start and end on boundaries of TIME_SLOTS, the
\* legacy generator, probing a slot with the minute from :01 (or :31) to :02
\* (or :32) after its start, finds the slot busy exactly when
\* is_slot_available returns False for the slot.
C26_LegacyAgrees ==
    (ov_pc = "compared" /\ IsTimeSlot) => (legacy_available = available)

\* The two checks on the slot 09:00-09:30 against a booking that ends at
\* 09:00 and one that starts at 09:30: both found the slot free.
C26_Witness ==
    /\ ov_pc = "compared"
    /\ slot_start = TIME_SLOTS[2] /\ slot_end = TIME_SLOTS[3]
    /\ room_timings = << << TIME_SLOTS[1], TIME_SLOTS[2] >>, << TIME_SLOTS[3], TIME_SLOTS[4] >> >>
    /\ legacy_available = TRUE /\ available = TRUE

\* ---- upload_timetable.py (SpecUpload)

\* C27: the Timings table receives an insert only after
\* delete_existing_timings has returned True; the script exits with 0 exactly
\* when the deletion succeeded and insert_timings_from_csv returned True; an
\* insert that fails is the last one sent, and the run then exits with 1.
C27_DeleteBeforeInsert ==
    /\ insert_calls # <<>> => delete_returned = "True"
    /\ up_pc = "done" =>
           ((up_exit_code = 0) <=> (delete_returned = "True" /\ insert_returned = "True"))
    /\ \A k \in 1..Len(insert_calls) :
           ~insert_calls[k].ok =>
               /\ k = Len(insert_calls)
               /\ insert_returned = "False"
               /\ up_pc \in { "exit", "done" }
               /\ up_pc = "done" => up_exit_code = 1

\* A run whose second insert failed after a first that succeeded: rows were
\* left unread, and the script exited with 1.
C27_Witness ==
    /\ up_pc = "done"
    /\ delete_returned = "True"
    /\ Len(insert_calls) = 2
    /\ insert_calls[1].ok /\ ~insert_calls[2].ok
    /\ up_exit_code = 1

\* The rows of the insert calls, in the order they were sent.
RECURSIVE SentRows(_)
SentRows(calls) ==
    IF calls = <<>> THEN <<>>
    ELSE SentRows(SubSeq(calls, 1, Len(calls) - 1)) \o calls[Len(calls)].batch

SevenFieldsFilled(r) ==
    /\ r.SubCode # "" /\ r.Class # "" /\ r.Day # "" /\ r.StartTime # ""
    /\ r.EndTime # "" /\ r.Room # "" /\ r.Teacher # ""

\* C28: when insert_timings_from_csv returns True, the rows of its insert
\* calls, read in order, are exactly the CSV rows with all seven fields
\* filled, in CSV order, each once; rows read = rows sent + rows skipped; and
\* no insert call ever carries zero rows or more than BATCH_SIZE rows.
C28_BatchesPartitionRows ==
    /\ \A k \in 1..Len(insert_calls) :
           Len(insert_calls[k].batch) \in 1..BATCH_SIZE
    /\ insert_returned = "True" =>
           /\ SentRows(insert_calls) = SelectSeq(csv_lines, SevenFieldsFilled)
           /\ total_rows_in_csv = Len(csv_lines)
           /\ total_rows_in_csv = Len(SentRows(insert_calls)) + skipped_count

\* A successful upload of a full batch and a final short one, with a row
\* skipped for its empty Teacher.
C28_Witness ==
    /\ insert_returned = "True"
    /\ Len(insert_calls) = 2
    /\ Len(insert_calls[1].batch) = BATCH_SIZE
    /\ Len(insert_calls[2].batch) < BATCH_SIZE
    /\ skipped_count >= 1
    /\ \E i \in 1..Len(csv_lines) : csv_lines[i].Teacher = ""

\* ---- scrape_timetable.py (SpecFetch)

\* The GETs of the fetch_page call that is running, in order.
AttemptsOfCall ==
    LET OfThisCall(g) == g.call = fp_call IN SelectSeq(get_log, OfThisCall)

\* Whether the running call has ended.
FetchPageEnded == fp_outcome # "none"

FetchPageContract ==
    LET gets == AttemptsOfCall
        n == Len(gets)
        failed(k) == ~gets[k].ok
        rotations == { r \in 1..Len(replaced_after) : replaced_after[r][1] = fp_call }
    IN  max_retries >= 1 =>
            \* at most max_retries attempts, and none after a success
            /\ n <= max_retries
            /\ \A k \in 1..n : gets[k].ok => k = n
            \* a return carries the response of the attempt that succeeded
            /\ fp_outcome # "None"
            /\ fp_outcome = "response" => n >= 1 /\ gets[n].ok
            /\ (FetchPageEnded /\ n >= 1 /\ gets[n].ok) => fp_outcome = "response"
            \* a raise is the exception of the last of max_retries failures
            /\ fp_outcome = "raised" =>
                   /\ n = max_retries /\ \A k \in 1..n : failed(k)
                   /\ fp_exception = gets[n].attempt
            /\ (n = max_retries /\ \A k \in 1..n : failed(k)) => fp_outcome = "raised"
            \* the session is replaced once after each failure but the last
            /\ \A r \in rotations :
                   LET a == replaced_after[r][2]
                   IN  a + 1 <= n /\ failed(a + 1) /\ a + 1 < max_retries
            /\ Cardinality(rotations) =
                   Cardinality({ k \in 1..n : failed(k) /\ k < max_retries
                                              /\ (k < n \/ fp_pc = "loop") })

\* C29: with max_retries >= 1, fetch_page makes at most max_retries GETs and
\* none after one that succeeded, returns the response of that one, raises
\* the exception of the last attempt when all max_retries attempts failed,
\* never returns None, replaces the session only after a failed attempt that
\* is not the last one, and every call (and with it the script) terminates.
C29_FetchPageRetries == [](FetchPageContract) /\ <>(fp_pc = "exited")

\* A second fetch_page call of scrape that raised after max_retries = 3
\* failures and two replaced sessions, after a first call that succeeded on
\* its second attempt.
C29_Witness ==
    /\ max_retries = 3 /\ fp_call = 2 /\ fp_outcome = "raised"
    /\ fp_exception = 2
    /\ Len(get_log) = 5
    /\ Len(replaced_after) = 3
    /\ fp_exit_code = 1

\* ---- update_rooms.py (SpecUpdateRooms)

\* C30: when find_new_rooms_from_csv failed on classes.csv (not a file, no
\* Room column, a row it cannot process), the run ends with final_success
\* False, no insert into the Rooms table, and a non-zero exit code.
C30_CsvFailureFatal ==
    (ur_pc = "done" /\ csv_error # "none") =>
        /\ ur_final_success = "False"
        /\ ur_insert_calls = <<>>
        /\ ur_exit_code # 0

====
